---- MODULE Spec2Model ----
(***************************************************************************)
(* GPTQ orchestration of keras/src/quantizers/gptqutils.py:                *)
(* quantize_model -> apply_gptq_layerwise, with layer discovery            *)
(* (find_layers_in_block) and activation capture by call interception.     *)
(* Tensors are symbolic terms: a tensor records the calibration sample it  *)
(* derives from, its rank, and the layers (with the weights they had) it   *)
(* has been passed through.                                                *)
(***************************************************************************)
EXTENDS Integers, Sequences, FiniteSets, TLC

VARIABLES
    model,               \* the model handed to quantize_model (structure, fixed)
    nsamples,            \* config.nsamples, then len(calibration_dataloader)
    dataloader,          \* calibration_dataloader
    pc,                  \* position in quantize_model / apply_gptq_layerwise
    err,                 \* exception that left quantize_model ("none" if none)
    pending,             \* exception in flight through the try/finally
    embedding_layer,     \* id of the chosen embedding layer (NoLayer if none)
    transformer_blocks,  \* sequence of block ids
    i,                   \* index of the current block, 1-based
    j,                   \* index of the current calibration sample, 0-based
    n,                   \* index of the current name in the registry, 1-based
    inputs,              \* inputs of the current block, one tensor per sample
    next_block_inputs,   \* outputs collected by PROPAGATE
    sub_layers_map,      \* registry of the current block: ordered dict key -> obj
    gptq_objects,        \* accumulators: <<block, key>> -> GPTQ object state
    buffers,             \* reachable captured_inputs dicts: block -> (key -> list)
    bound,               \* block whose dict the name captured_inputs is bound to
    original_calls,      \* ordered dict key -> saved call attribute
    call,                \* layer object -> its call attribute (stack of hooks)
    weights,             \* layer object -> weight tensor (quantizations applied)
    quantizer,           \* the Quantizer configured for the current block
    ret,                 \* what quantize_model returned
    log,                 \* history of the operations performed
    loader,              \* frame of a direct call of get_dataloader
    fq                   \* frame of a call of GPTQ.fasterquant

vars == <<model, nsamples, dataloader, pc, err, pending, embedding_layer,
          transformer_blocks, i, j, n, inputs, next_block_inputs,
          sub_layers_map, gptq_objects, buffers, bound, original_calls,
          call, weights, quantizer, ret, log, loader, fq>>

-----------------------------------------------------------------------------
(* Bounds of the model *)

MaxLayers == 3
MaxBlocks == 2
MaxSamples == 2

(* quantize_model requests config.nsamples + 50 samples *)
ExtraSamples == 50

NoLayer == 0 - 1
TokenEmbeddingId == 0
EmbeddingId == 100

-----------------------------------------------------------------------------
(* Layer containment trees.  A tree is a sequence of nodes, node 1 the     *)
(* block itself; a node has a name (a sequence of name pieces), the        *)
(* layer class, the layer object it is, and its _layers list.              *)

Node(name, kind, obj, kids) ==
    [name |-> name, kind |-> kind, obj |-> obj, kids |-> kids]

Shapes == {"EMPTY", "PLAIN", "ALIAS", "COLLIDE"}

(* blocks with the layers of PLAIN whose call passes the input of the    *)
(* second Dense layer as the keyword argument inputs, passes it under    *)
(* another keyword, or never invokes that layer                          *)
CallShapes == {"KEYWORD", "NOINPUT", "UNUSED"}

ShapeTree(s) ==
    CASE s = "EMPTY" ->
           << Node(<<"blk">>, "Container", "self", <<2>>),
              Node(<<"norm">>, "Other", "N", <<>>) >>
      [] s \in {"PLAIN"} \cup CallShapes ->
           << Node(<<"blk">>, "Container", "self", <<2, 3, 5>>),
              Node(<<"d1">>, "Dense", "A", <<>>),
              Node(<<"ffn">>, "Container", "F", <<4>>),
              Node(<<"d2">>, "Dense", "B", <<>>),
              Node(<<"norm">>, "Other", "N", <<>>) >>
      [] s = "ALIAS" ->
           << Node(<<"blk">>, "Container", "self", <<2, 3>>),
              Node(<<"d">>, "Dense", "A", <<>>),
              Node(<<"ffn">>, "Container", "F", <<4, 5>>),
              Node(<<"d">>, "Dense", "A", <<>>),
              Node(<<"e">>, "EinsumDense", "B", <<>>) >>
      [] s = "COLLIDE" ->
           << Node(<<"blk">>, "Container", "self", <<2, 3>>),
              Node(<<"proj">>, "Dense", "A", <<>>),
              Node(<<"proj">>, "Dense", "B", <<>>) >>

(* variant: every layer without sub-layers is a target *)
IsTargetAnyLeaf(kind) == kind # "Container"

IsTarget(kind) == kind \in {"Dense", "EinsumDense"}

(* Ordered dict as a sequence of [key, val] entries: assigning an existing *)
(* key replaces its value in place, a new key is appended.                 *)
DictHas(d, k) == \E p \in 1..Len(d) : d[p].key = k

DictSet(d, k, v) ==
    IF DictHas(d, k)
    THEN [p \in 1..Len(d) |-> IF d[p].key = k THEN [key |-> k, val |-> v] ELSE d[p]]
    ELSE Append(d, [key |-> k, val |-> v])

DictGet(d, k) == (CHOOSE p \in 1..Len(d) : d[p].key = k)

DictVal(d, k) == d[DictGet(d, k)].val

DictKeys(d) == [p \in 1..Len(d) |-> d[p].key]

(* f"{prefix}.{sub_layer.name}" *)
LayerName(prefix, name) == prefix \o <<".">> \o name

RECURSIVE FindLayersRecursive(_, _, _, _, _)
(* _find_layers_recursive over the rest kids of layer._layers; blk is      *)
(* the block the objects belong to.                                        *)
FindLayersRecursive(tree, kids, prefix, found, blk) ==
    IF kids = <<>> THEN found
    ELSE LET sub_layer == tree[Head(kids)]
             layer_name == LayerName(prefix, sub_layer.name)
             found1 ==
                 IF IsTarget(sub_layer.kind)
                 THEN DictSet(found, layer_name, <<blk, sub_layer.obj>>)
                 ELSE IF sub_layer.kids # <<>>
                      THEN FindLayersRecursive(tree, sub_layer.kids, layer_name,
                                               found, blk)
                      ELSE found
         IN FindLayersRecursive(tree, Tail(kids), prefix, found1, blk)

FindLayersInBlock(tree, blk) ==
    FindLayersRecursive(tree, tree[1].kids, <<"block">>, <<>>, blk)

-----------------------------------------------------------------------------
(* Models.  A custom model is its model.layers list; a KerasNLP-style      *)
(* model has a backbone whose attributes token_embedding, embedding and    *)
(* transformer_layers may or may not exist.  exec is the order in which    *)
(* the model's call executes its top-level layers; the code never reads it.*)

TopLayer(kind, shape) == [kind |-> kind, shape |-> shape]

TopAlphabet ==
    {TopLayer("Embedding", "NONE"), TopLayer("Leaf", "NONE")}
        \cup {TopLayer("Block", s) : s \in Shapes}

SeqsUpTo(S, k) == UNION {[1..m -> S] : m \in 0..k}

Identity(k) == [p \in 1..k |-> p]

Reversed(k) == [p \in 1..k |-> k + 1 - p]

(* the layers execute in list order, or in the opposite order *)
ExecOrders(k) == {Identity(k), Reversed(k)}

CustomModels ==
    UNION {{[has_backbone |-> FALSE, layers |-> ls, token_embedding |-> FALSE,
             embedding |-> FALSE, has_tl |-> FALSE, transformer_layers |-> <<>>,
             exec |-> ex] : ex \in ExecOrders(Len(ls))} :
              ls \in SeqsUpTo(TopAlphabet, MaxLayers)}

BackboneModels ==
    UNION {{[has_backbone |-> TRUE, layers |-> <<>>, token_embedding |-> te,
             embedding |-> e, has_tl |-> h, transformer_layers |-> tl,
             exec |-> Identity(Len(tl))] :
                tl \in IF h THEN SeqsUpTo(Shapes, MaxBlocks) ELSE {<<>>}} :
              te \in BOOLEAN, e \in BOOLEAN, h \in BOOLEAN}

Models == CustomModels \cup BackboneModels

(* the block ids a model could yield, and the tree of a block *)
BlockShape(m, b) ==
    IF m.has_backbone THEN m.transformer_layers[b] ELSE m.layers[b].shape

BlockTree(m, b) == ShapeTree(BlockShape(m, b))

HasSubLayers(m, p) == m.layers[p].kind = "Block"

(* every layer object of the model that owns weights *)
BlockObjs(m, b) ==
    {<<b, BlockTree(m, b)[q].obj>> :
        q \in {q \in 1..Len(BlockTree(m, b)) :
                  BlockTree(m, b)[q].kind # "Container"}}

AllObjs(m) ==
    IF m.has_backbone
    THEN (IF m.token_embedding THEN {<<TokenEmbeddingId, "self">>} ELSE {})
         \cup (IF m.embedding THEN {<<EmbeddingId, "self">>} ELSE {})
         \cup UNION {BlockObjs(m, b) : b \in 1..Len(m.transformer_layers)}
    ELSE {<<p, "self">> : p \in {p \in 1..Len(m.layers) :
                                    m.layers[p].kind # "Block"}}
         \cup UNION {BlockObjs(m, p) :
                        p \in {p \in 1..Len(m.layers) : m.layers[p].kind = "Block"}}

-----------------------------------------------------------------------------
(* Layer discovery of apply_gptq_layerwise, lines 226-255.  The result is  *)
(* the exception raised ("none" if none), the embedding layer and blocks.  *)

Found(e, emb, blocks) ==
    [err |-> e, embedding_layer |-> emb, transformer_blocks |-> blocks]

RECURSIVE ScanLayersLastEmbedding(_, _, _, _)
(* variant: every Embedding layer met replaces the one chosen before *)
ScanLayersLastEmbedding(m, p, emb, blocks) ==
    IF p > Len(m.layers) THEN Found("none", emb, blocks)
    ELSE IF m.layers[p].kind = "Embedding"
         THEN ScanLayersLastEmbedding(m, p + 1, p, blocks)
         ELSE IF HasSubLayers(m, p)
              THEN ScanLayersLastEmbedding(m, p + 1, emb, Append(blocks, p))
              ELSE ScanLayersLastEmbedding(m, p + 1, emb, blocks)

RECURSIVE ScanLayers(_, _, _, _)
(* the loop over model.layers of the custom path *)
ScanLayers(m, p, emb, blocks) ==
    IF p > Len(m.layers) THEN Found("none", emb, blocks)
    ELSE IF m.layers[p].kind = "Embedding" /\ emb = NoLayer
         THEN ScanLayers(m, p + 1, p, blocks)
         ELSE IF HasSubLayers(m, p)
              THEN ScanLayers(m, p + 1, emb, Append(blocks, p))
              ELSE ScanLayers(m, p + 1, emb, blocks)

DiscoverBackbone(m) ==
    IF ~m.has_tl
    THEN Found("AttributeError", NoLayer, <<>>)
    ELSE LET blocks == Identity(Len(m.transformer_layers))
         IN IF m.token_embedding THEN Found("none", TokenEmbeddingId, blocks)
            ELSE IF m.embedding THEN Found("none", EmbeddingId, blocks)
            ELSE Found("ValueError", NoLayer, blocks)

DiscoverLayers(m) ==
    LET found == IF m.has_backbone THEN DiscoverBackbone(m)
                 ELSE ScanLayers(m, 1, NoLayer, <<>>)
    IN IF found.err # "none" THEN found
       ELSE IF found.embedding_layer = NoLayer
            THEN Found("ValueError", NoLayer, found.transformer_blocks)
       ELSE IF found.transformer_blocks = <<>>
            THEN Found("ValueError", found.embedding_layer, <<>>)
       ELSE found

-----------------------------------------------------------------------------
(* Tensors and forward passes *)

Sample(k) == [sample |-> k, rank |-> 2, hist |-> <<>>]

NoTensor == [sample |-> 0 - 1, rank |-> 0, hist |-> <<>>]

LayerObjs(m, l) ==
    IF m.has_backbone
    THEN (IF l \in {TokenEmbeddingId, EmbeddingId} THEN {<<l, "self">>}
          ELSE BlockObjs(m, l))
    ELSE (IF m.layers[l].kind # "Block" THEN {<<l, "self">>}
          ELSE BlockObjs(m, l))

(* the weights a layer computes with, as they are now *)
Snapshot(m, W, l) == [o \in LayerObjs(m, l) |-> W[o]]

(* embedding_layer(batch): (1, seqlen) -> (1, seqlen, dim) *)
EmbeddingCall(m, W, l, x) ==
    [x EXCEPT !.rank = @ + 1,
              !.hist = Append(@, [layer |-> l, w |-> Snapshot(m, W, l)])]

(* block(current_input): the output has the input's shape *)
BlockCall(m, W, b, x) ==
    [x EXCEPT !.hist = Append(@, [layer |-> b, w |-> Snapshot(m, W, b)])]

(* output[0] and ops.expand_dims(x, axis=0) *)
Index0(x) == [x EXCEPT !.rank = @ - 1]

ExpandDims(x) == [x EXCEPT !.rank = @ + 1]

(* lines 298-300 and 339-341 *)
CurrentInput(x) == IF x.rank = 2 THEN ExpandDims(x) ELSE x

(* how the block's call invokes the layer object obj *)
CallStyle(s, obj) ==
    IF obj # "B" THEN "positional"
    ELSE CASE s = "KEYWORD" -> "keyword"
           [] s = "NOINPUT" -> "other"
           [] s = "UNUSED" -> "never"
           [] OTHER -> "positional"

(* the arguments of an invocation with the tensor x: *args, and what   *)
(* **kwargs holds under the key "inputs" (nothing, or one tensor)      *)
Arguments(how, x) ==
    CASE how = "positional" -> [args |-> <<x>>, inputs |-> <<>>]
      [] how = "keyword" -> [args |-> <<>>, inputs |-> <<x>>]
      [] OTHER -> [args |-> <<>>, inputs |-> <<>>]

(* lines 282-285: kwargs["inputs"] raises KeyError without that key *)
HookRaises(a) == a.args = <<>> /\ a.inputs = <<>>

HookInput(a) == IF a.args # <<>> THEN a.args[1] ELSE a.inputs[1]

(* the sub-layer objects a forward pass of the block invokes, in order *)
Invocations(tree, blk) ==
    SelectSeq([q \in 1..Len(tree) |->
                  [kind |-> tree[q].kind, obj |-> <<blk, tree[q].obj>>,
                   how |-> CallStyle(BlockShape(model, blk), tree[q].obj)]],
              LAMBDA nd : IsTarget(nd.kind) /\ nd.how # "never")

RECURSIVE HookCalls(_, _, _)
(* layer.call(inp) with the hooks hs stacked on the original call, the     *)
(* outermost last: each hook appends inp to the list of its own name.      *)
HookCalls(buf, hs, entry) ==
    IF hs = <<>> THEN buf
    ELSE LET h == hs[Len(hs)]
         IN HookCalls([buf EXCEPT ![h] = Append(@, entry)],
                      SubSeq(hs, 1, Len(hs) - 1), entry)

(* the invocation inv reaches a hook that raises *)
InvocationRaises(inv, calls) ==
    calls[inv.obj] # <<>> /\ HookRaises(Arguments(inv.how, NoTensor))

(* a forward pass of the block ends in a hook's KeyError *)
ForwardRaises(invs, calls) ==
    \E q \in 1..Len(invs) : InvocationRaises(invs[q], calls)

RECURSIVE ForwardHooks(_, _, _, _, _)
(* the captured_inputs dict after one forward pass of a block on x with *)
(* the weights w, or when a hook of the pass raises                     *)
ForwardHooks(buf, invs, calls, x, w) ==
    IF invs = <<>> THEN buf
    ELSE IF InvocationRaises(Head(invs), calls) THEN buf
    ELSE ForwardHooks(HookCalls(buf, calls[Head(invs).obj],
                                [inp |-> HookInput(Arguments(Head(invs).how, x)),
                                 w |-> w]),
                      Tail(invs), calls, x, w)

Event(op, blk, key, k, x) == [op |-> op, blk |-> blk, key |-> key, j |-> k, x |-> x]

-----------------------------------------------------------------------------
(* get_dataloader, lines 79-179.  A dataset is a sequence of records, each  *)
(* given by the number of tokens its text (or its array) holds; token k of  *)
(* record r is the pair <<r, k>>, so every token of a source is distinct    *)
(* and a sample tells which positions of the source it was cut from.        *)

MaxRecords == 2
MaxRecLen == 3
MaxSeqLen == 3

(* dataset_head = streaming_dataset.take(nsamples * 5) *)
C4Take == 5

(* a dataset name loaded by load_dataset, the name "c4", a list of strings, *)
(* a list of token arrays, a generator of token arrays                      *)
Kinds == {"alias", "c4", "strings", "tokens", "generator"}

Min(a, b) == IF a < b THEN a ELSE b

Tokens(r, len) == [k \in 1..len |-> <<r, k>>]

(* the two characters of the separator "\n\n", one token each *)
Newlines(r) == << <<r, 0>>, <<r, 0 - 1>> >>

(* tokenizer.tokenize("\n\n".join(text_list)) with one token per character *)
RECURSIVE TokenizeJoined(_, _)
TokenizeJoined(recs, r) ==
    IF r > Len(recs) THEN <<>>
    ELSE Tokens(r, recs[r])
         \o (IF r < Len(recs) THEN Newlines(r) ELSE <<>>)
         \o TokenizeJoined(recs, r + 1)

(* ops.concatenate([ops.reshape(s, [-1]) for s in dataset_list], axis=0) *)
RECURSIVE Concatenate(_, _)
Concatenate(recs, r) ==
    IF r > Len(recs) THEN <<>>
    ELSE Tokens(r, recs[r]) \o Concatenate(recs, r + 1)

(* list(dataset): a generator yields its records once *)
DatasetList(f) ==
    IF f.kind = "generator" /\ f.consumed THEN <<>> ELSE f.recs

(* the token stream of a source that is not "c4" *)
AllTokens(kind, lst) ==
    IF kind \in {"alias", "strings"} THEN TokenizeJoined(lst, 1)
    ELSE Concatenate(lst, 1)

(* repeats = -(-required_tokens // len(all_tokens)) *)
RepeatsFloor(required, len) == required \div len

Repeats(required, len) == 0 - ((0 - required) \div len)

(* np.tile(all_tokens, repeats) *)
RECURSIVE Tile(_, _)
Tile(tokens, repeats) ==
    IF repeats <= 0 THEN <<>> ELSE tokens \o Tile(tokens, repeats - 1)

(* tokens[start:end] with Python's clamping of the indices, start >= 0 *)
Slice(tokens, start, end) ==
    SubSeq(tokens, start + 1, Min(end, Len(tokens)))

(* start_index = i * seqlen; end_index = start_index + seqlen *)
StartIndexOverlapping(k, seqlen) == k

StartIndex(k, seqlen) == k * seqlen

(* np.squeeze(tokenizer(doc["text"])) followed by len(): a document of one *)
(* token squeezes to a 0-d array, whose len() raises TypeError             *)
TokenizeRaises(len) == len = 1

(* random.randint(0, len(tokenized_doc) - seqlen - 1), both ends included *)
OffsetsInclusive(len, seqlen) == 0..(len - seqlen)

Offsets(len, seqlen) == 0..(len - seqlen - 1)

(* list.remove(doc) *)
Remove(docs, d) == [k \in 1..(Len(docs) - 1) |-> IF k < d THEN docs[k] ELSE docs[k + 1]]

(* the frame of a call: arguments, locals, position, and the outcomes of   *)
(* the calls made so far with these arguments                              *)
Frame(kind, recs, ns, seqlen, calls) ==
    [pc |-> "start", kind |-> kind, recs |-> recs, consumed |-> FALSE,
     nsamples |-> ns, seqlen |-> seqlen, all_tokens |-> <<>>,
     docs_for_sampling |-> <<>>, doc |-> 0, samples |-> <<>>,
     err |-> "none", results |-> <<>>, calls |-> calls]

NoCall == [Frame("tokens", <<>>, 0, 0, 0) EXCEPT !.pc = "none"]

-----------------------------------------------------------------------------
(* GPTQ.fasterquant, step 4 of the algorithm: the columns of the weight    *)
(* matrix are processed one by one in blocks.  A column is known by its    *)
(* position 0..columns-1 in the processing order; perm gives the original  *)
(* index of each position (the identity unless act_order reorders).        *)

MaxColumns == 4
MaxBlockSize == 3
MaxGroupSize == 3

Perms(k) ==
    {f \in [1..k -> 0..(k - 1)] : \A a, b \in 1..k : f[a] = f[b] => a = b}

Orders(k, act_order) ==
    IF act_order THEN Perms(k) ELSE {[p \in 1..k |-> p - 1]}

NoParams == [lo |-> 0, hi |-> 0]

(* the block that starts at position i1 ends before this position *)
BlockEnd(i1, blocksize, columns) == Min(i1 + blocksize, columns)

(* parameters are found anew at the first column of every group *)
NeedsParamsInBlock(i1, k, group_size) == k % group_size = 0

NeedsParams(i1, k, group_size) == (i1 + k) % group_size = 0

(* find_params over the group of columns that starts at position p *)
FindParams(p, group_size, columns) ==
    [lo |-> p, hi |-> Min(p + group_size, columns)]

(* the columns corrected right after column p: the later ones of its block *)
LaterInBlock(p, i2) == (p + 1)..(i2 - 1)

(* the columns corrected at the end of a block *)
NextBlockOnly(i2, blocksize, columns) ==
    i2..(Min(i2 + blocksize, columns) - 1)

LaterBlocks(i2, blocksize, columns) == i2..(columns - 1)

(* the frame of a call: arguments, position, the columns quantized so far  *)
(* in order, the parameters each was quantized with, and for each column   *)
(* the columns whose error has been added to it (when it was quantized:    *)
(* seen; by now: applied)                                                  *)
FasterquantFrame(columns, blocksize, group_size, perm) ==
    [pc |-> "column", columns |-> columns, blocksize |-> blocksize,
     group_size |-> group_size, perm |-> perm, i1 |-> 0, k |-> 0,
     params |-> NoParams, Q |-> <<>>,
     used |-> [p \in 0..(columns - 1) |-> NoParams],
     seen |-> [p \in 0..(columns - 1) |-> {}],
     applied |-> [p \in 0..(columns - 1) |-> {}],
     out |-> <<>>]

NoFasterquant == [FasterquantFrame(0, 1, 1, <<>>) EXCEPT !.pc = "none"]

-----------------------------------------------------------------------------
(* Initial states: quantize_model(model, config) is about to run *)

Init ==
    /\ model \in Models
    /\ nsamples \in {1, MaxSamples}
    /\ dataloader = <<>>
    /\ pc = "quantize_model"
    /\ err = "none"
    /\ pending = "none"
    /\ embedding_layer = NoLayer
    /\ transformer_blocks = <<>>
    /\ i = 0
    /\ j = 0
    /\ n = 0
    /\ inputs = <<>>
    /\ next_block_inputs = <<>>
    /\ sub_layers_map = <<>>
    /\ gptq_objects = <<>>
    /\ buffers = <<>>
    /\ bound = NoLayer
    /\ original_calls = <<>>
    /\ call = [o \in AllObjs(model) |-> <<>>]
    /\ weights = [o \in AllObjs(model) |-> <<>>]
    /\ quantizer = "none"
    /\ ret = "none"
    /\ log = <<>>
    /\ loader = NoCall
    /\ fq = NoFasterquant

-----------------------------------------------------------------------------
(* quantize_model, lines 350-388, and the start of apply_gptq_layerwise *)

(* get_dataloader(..., nsamples=total): total samples, sample k at index k *)
GetDataloader(total) == [k \in 1..total |-> k - 1]

(* variant: the last config.nsamples samples are taken *)
CalibrationSliceTail(full, k) == SubSeq(full, Len(full) - k + 1, Len(full))

(* full_dataloader[:config.nsamples] *)
CalibrationSlice(full, k) == SubSeq(full, 1, k)

Raise(e) ==
    /\ pc' = "error"
    /\ err' = e

QuantizeModel ==
    /\ pc = "quantize_model"
    /\ dataloader' = CalibrationSlice(GetDataloader(nsamples + ExtraSamples), nsamples)
    /\ nsamples' = Len(dataloader')
    /\ pc' = "discover"
    /\ UNCHANGED <<loader, fq, model, err, pending, embedding_layer, transformer_blocks, i, j, n,
                   inputs, next_block_inputs, sub_layers_map, gptq_objects, buffers,
                   bound, original_calls, call, weights, quantizer, ret, log>>

(* lines 226-255 *)
Discover ==
    /\ pc = "discover"
    /\ DiscoverLayers(model).err = "none"
    /\ embedding_layer' = DiscoverLayers(model).embedding_layer
    /\ transformer_blocks' = DiscoverLayers(model).transformer_blocks
    /\ pc' = "embed"
    /\ UNCHANGED <<loader, fq, model, nsamples, dataloader, err, pending, i, j, n, inputs,
                   next_block_inputs, sub_layers_map, gptq_objects, buffers, bound,
                   original_calls, call, weights, quantizer, ret, log>>

DiscoverFail ==
    /\ pc = "discover"
    /\ DiscoverLayers(model).err # "none"
    /\ Raise(DiscoverLayers(model).err)
    /\ UNCHANGED <<loader, fq, model, nsamples, dataloader, pending, embedding_layer,
                   transformer_blocks, i, j, n, inputs, next_block_inputs,
                   sub_layers_map, gptq_objects, buffers, bound, original_calls,
                   call, weights, quantizer, ret, log>>

(* lines 258-261: the embedding layer over every calibration sample *)
EmbedInputs(m, W, emb, dl) ==
    [k \in 1..Len(dl) |-> EmbeddingCall(m, W, emb, Sample(dl[k]))]

Embed ==
    /\ pc = "embed"
    /\ inputs' = EmbedInputs(model, weights, embedding_layer, dataloader)
    /\ log' = log \o [k \in 1..Len(dataloader) |->
                        Event("embed", embedding_layer, <<>>, k - 1, Sample(dataloader[k]))]
    /\ i' = 1
    /\ pc' = "find"
    /\ UNCHANGED <<loader, fq, model, nsamples, dataloader, err, pending, embedding_layer,
                   transformer_blocks, j, n, next_block_inputs, sub_layers_map,
                   gptq_objects, buffers, bound, original_calls, call, weights,
                   quantizer, ret>>

-----------------------------------------------------------------------------
(* One block: registry, accumulators, hooks *)

Block == transformer_blocks[i]

Name(p) == sub_layers_map[p].key

Layer(p) == sub_layers_map[p].val

(* GPTQ(layer): a fresh accumulator with an empty Hessian *)
GPTQ(layer) ==
    [layer |-> layer, H |-> <<>>, nsamples |-> 0, freed |-> FALSE, read |-> <<>>]

AccKeys(map, b) == {<<b, map[p].key>> : p \in 1..Len(map)}

(* line 271: one accumulator per name of the registry *)
CreateAccumulators(accs, map, b) ==
    [a \in DOMAIN accs \cup AccKeys(map, b) |->
        IF a \in AccKeys(map, b) THEN GPTQ(DictVal(map, a[2])) ELSE accs[a]]

(* line 275: one empty list per name *)
NewBuffers(bufs, map, b) ==
    [c \in DOMAIN bufs \cup {b} |->
        IF c = b THEN [k \in {map[p].key : p \in 1..Len(map)} |-> <<>>] ELSE bufs[c]]

(* a hook's closure holds the variable captured_inputs of the enclosing    *)
(* function, not the dict it named when the hook was made: a dict stays    *)
(* reachable only while the name is bound to it                            *)
Reachable(m, b, bnd, calls) == bnd = b

CollectBuffers(m, bufs, bnd, calls) ==
    [b \in {c \in DOMAIN bufs : Reachable(m, c, bnd, calls)} |-> bufs[b]]

(* variant: a block without target layers ends its iteration at once *)
FindLayersContinue ==
    /\ pc = "find"
    /\ LET map == FindLayersInBlock(BlockTree(model, Block), Block)
       IN /\ sub_layers_map' = map
          /\ IF map = <<>>
             THEN /\ pc' = "clear"
                  /\ UNCHANGED <<gptq_objects, buffers, bound, log>>
             ELSE /\ pc' = "install"
                  /\ gptq_objects' = CreateAccumulators(gptq_objects, map, Block)
                  /\ buffers' = NewBuffers(buffers, map, Block)
                  /\ bound' = Block
                  /\ log' = log \o [p \in 1..Len(map) |->
                                      Event("GPTQ", Block, map[p].key, 0 - 1, NoTensor)]
    /\ original_calls' = <<>>
    /\ j' = 0
    /\ n' = 1
    /\ next_block_inputs' = <<>>
    /\ UNCHANGED <<loader, fq, model, nsamples, dataloader, err, pending, embedding_layer,
                   transformer_blocks, i, inputs, call, weights, quantizer, ret>>

(* lines 263-277 *)
FindLayers ==
    /\ pc = "find"
    /\ LET map == FindLayersInBlock(BlockTree(model, Block), Block)
       IN /\ sub_layers_map' = map
          /\ IF map = <<>>
             THEN /\ pc' = "propagate"
                  /\ UNCHANGED <<gptq_objects, buffers, bound, log>>
             ELSE /\ pc' = "install"
                  /\ gptq_objects' = CreateAccumulators(gptq_objects, map, Block)
                  /\ buffers' = NewBuffers(buffers, map, Block)
                  /\ bound' = Block
                  /\ log' = log \o [p \in 1..Len(map) |->
                                      Event("GPTQ", Block, map[p].key, 0 - 1, NoTensor)]
    /\ original_calls' = <<>>
    /\ j' = 0
    /\ n' = 1
    /\ next_block_inputs' = <<>>
    /\ UNCHANGED <<loader, fq, model, nsamples, dataloader, err, pending, embedding_layer,
                   transformer_blocks, i, inputs, call, weights, quantizer, ret>>

RECURSIVE InstallFold(_, _, _, _, _)
(* lines 291-294 for the names p..f of the registry *)
InstallFold(map, p, f, orig, calls) ==
    IF p > f THEN [orig |-> orig, calls |-> calls]
    ELSE LET name == map[p].key
             layer == map[p].val
             original_call == calls[layer]
         IN InstallFold(map, p + 1, f,
                        DictSet(orig, name, original_call),
                        [calls EXCEPT ![layer] = Append(original_call, name)])

InstallHooks ==
    /\ pc = "install"
    /\ LET st == InstallFold(sub_layers_map, 1, Len(sub_layers_map), original_calls, call)
       IN /\ original_calls' = st.orig
          /\ call' = st.calls
    /\ log' = log \o [p \in 1..Len(sub_layers_map) |->
                        Event("install", Block, Name(p), 0 - 1, NoTensor)]
    /\ pc' = "capture"
    /\ UNCHANGED <<loader, fq, model, nsamples, dataloader, err, pending, embedding_layer,
                   transformer_blocks, i, j, n, inputs, next_block_inputs,
                   sub_layers_map, gptq_objects, buffers, bound, weights,
                   quantizer, ret>>

(* an exception while the hooks are being installed, after f of them *)
InstallHooksFail ==
    /\ pc = "install"
    /\ \E f \in 0..(Len(sub_layers_map) - 1) :
          /\ LET st == InstallFold(sub_layers_map, 1, f, original_calls, call)
             IN /\ original_calls' = st.orig
                /\ call' = st.calls
          /\ log' = log \o [p \in 1..f |->
                              Event("install", Block, Name(p), 0 - 1, NoTensor)]
    /\ pending' = "Exception"
    /\ pc' = "finally"
    /\ UNCHANGED <<loader, fq, model, nsamples, dataloader, err, embedding_layer,
                   transformer_blocks, i, j, n, inputs, next_block_inputs,
                   sub_layers_map, gptq_objects, buffers, bound, weights,
                   quantizer, ret>>

(* variant: the capture loop stops after the first calibration sample *)
CaptureStepOnce ==
    /\ pc = "capture"
    /\ j < nsamples
    /\ ~ForwardRaises(Invocations(BlockTree(model, Block), Block), call)
    /\ LET x == CurrentInput(inputs[j + 1])
       IN /\ buffers' = [buffers EXCEPT ![Block] =
                            ForwardHooks(@, Invocations(BlockTree(model, Block), Block),
                                         call, x, Snapshot(model, weights, Block))]
          /\ log' = Append(log, Event("capture", Block, <<>>, j, x))
    /\ j' = j + 1
    /\ pc' = "finally"
    /\ UNCHANGED <<loader, fq, model, nsamples, dataloader, err, pending, embedding_layer,
                   transformer_blocks, i, n, inputs, next_block_inputs,
                   sub_layers_map, gptq_objects, bound, original_calls, call,
                   weights, quantizer, ret>>

(* lines 297-301: one forward pass of the block with the hooks installed *)
CaptureStep ==
    /\ pc = "capture"
    /\ j < nsamples
    /\ ~ForwardRaises(Invocations(BlockTree(model, Block), Block), call)
    /\ LET x == CurrentInput(inputs[j + 1])
       IN /\ buffers' = [buffers EXCEPT ![Block] =
                            ForwardHooks(@, Invocations(BlockTree(model, Block), Block),
                                         call, x, Snapshot(model, weights, Block))]
          /\ log' = Append(log, Event("capture", Block, <<>>, j, x))
    /\ j' = j + 1
    /\ pc' = IF j + 1 = nsamples THEN "finally" ELSE "capture"
    /\ UNCHANGED <<loader, fq, model, nsamples, dataloader, err, pending, embedding_layer,
                   transformer_blocks, i, n, inputs, next_block_inputs,
                   sub_layers_map, gptq_objects, bound, original_calls, call,
                   weights, quantizer, ret>>

(* line 301 when a hooked layer is invoked without a positional argument *)
(* and without the keyword inputs: the hook raises KeyError               *)
CaptureKeyError ==
    /\ pc = "capture"
    /\ j < nsamples
    /\ ForwardRaises(Invocations(BlockTree(model, Block), Block), call)
    /\ LET x == CurrentInput(inputs[j + 1])
       IN buffers' = [buffers EXCEPT ![Block] =
                         ForwardHooks(@, Invocations(BlockTree(model, Block), Block),
                                      call, x, Snapshot(model, weights, Block))]
    /\ pending' = "KeyError"
    /\ pc' = "finally"
    /\ UNCHANGED <<loader, fq, model, nsamples, dataloader, err, embedding_layer,
                   transformer_blocks, i, j, n, inputs, next_block_inputs,
                   sub_layers_map, gptq_objects, bound, original_calls, call,
                   weights, quantizer, ret, log>>

(* the block raises during a capture pass *)
CaptureFail ==
    /\ pc = "capture"
    /\ j < nsamples
    /\ pending' = "Exception"
    /\ pc' = "finally"
    /\ UNCHANGED <<loader, fq, model, nsamples, dataloader, err, embedding_layer,
                   transformer_blocks, i, j, n, inputs, next_block_inputs,
                   sub_layers_map, gptq_objects, buffers, bound, original_calls,
                   call, weights, quantizer, ret, log>>

RECURSIVE RestoreCalls(_, _, _, _)
(* lines 304-306: the finally clause, over the names p.. of the registry *)
RestoreCalls(map, p, orig, calls) ==
    IF p > Len(map) THEN calls
    ELSE LET name == map[p].key
             layer == map[p].val
         IN RestoreCalls(map, p + 1, orig,
                         IF DictHas(orig, name)
                         THEN [calls EXCEPT ![layer] = DictVal(orig, name)]
                         ELSE calls)

Finally ==
    /\ pc = "finally"
    /\ call' = RestoreCalls(sub_layers_map, 1, original_calls, call)
    /\ log' = Append(log, Event("restore", Block, <<>>, 0 - 1, NoTensor))
    /\ IF pending # "none"
       THEN Raise(pending)
       ELSE /\ pc' = "build"
            /\ err' = err
    /\ pending' = "none"
    /\ n' = 1
    /\ UNCHANGED <<loader, fq, model, nsamples, dataloader, embedding_layer,
                   transformer_blocks, i, j, inputs, next_block_inputs,
                   sub_layers_map, gptq_objects, buffers, bound, original_calls,
                   weights, quantizer, ret>>

-----------------------------------------------------------------------------
(* BUILD_HESSIAN and QUANTIZE, lines 308-333 *)

(* shape of the tensor a sub-layer is called with for one calibration    *)
(* sample; the last dimension is its feature count                       *)
InputShape(s, obj) ==
    IF s = "COLLIDE" /\ obj = "B" THEN <<1, 1, 3>> ELSE <<1, 2, 2>>

(* num_features = gptq_object.rows *)
Rows(s, obj) == 2

RECURSIVE Prod(_)
Prod(dims) == IF dims = <<>> THEN 1 ELSE Head(dims) * Prod(Tail(dims))

(* number of elements of ops.concatenate(captured_inputs[name], axis=0) *)
Elements(lst, dims) == Len(lst) * Prod(dims)

(* ops.reshape(x, (-1, num_features)) raises unless the size divides *)
ReshapeRaises(total, rows) == total % rows # 0

(* ops.reshape(ops.concatenate(captured_inputs[name], axis=0), (-1, rows)) *)
LayerInputs(lst, dims, rows) ==
    [data |-> lst, nrows |-> Elements(lst, dims) \div rows, width |-> rows]

(* GPTQ.add_batch: accumulate the batch into the Hessian, count its rows *)
AddBatch(g, batch) ==
    [g EXCEPT !.H = Append(@, batch), !.nsamples = @ + batch.nrows]

(* GPTQ.fasterquant: the layer's weight tensor is overwritten in place *)
FasterquantWeights(W, layer, name) == [W EXCEPT ![layer] = Append(@, name)]

(* GPTQ.fasterquant reads the layer's weights, the Hessian and the *)
(* quantizer; the accumulator remembers what it was given          *)
FasterquantReads(g, W, q) ==
    [g EXCEPT !.read = <<[W |-> W, H |-> g.H, quantizer |-> q]>>]

(* GPTQ.free: the Hessian is released *)
FreeAccumulator(g) == [g EXCEPT !.H = <<>>, !.freed = TRUE]

(* variant: an empty list of captured inputs is accumulated like any other *)
BuildHessianOfNothing ==
    /\ pc = "build"
    /\ LET layer_inputs == buffers[Block][Name(n)]
           dims == InputShape(BlockShape(model, Block), Layer(n)[2])
           num_features == Rows(BlockShape(model, Block), Layer(n)[2])
       IN  /\ ~ReshapeRaises(Elements(layer_inputs, dims), num_features)
           /\ gptq_objects' = [gptq_objects EXCEPT ![<<Block, Name(n)>>] =
                 AddBatch(@, LayerInputs(layer_inputs, dims, num_features))]
    /\ log' = Append(log, Event("add_batch", Block, Name(n), 0 - 1, NoTensor))
    /\ IF n < Len(sub_layers_map)
       THEN /\ n' = n + 1
            /\ pc' = "build"
            /\ UNCHANGED quantizer
       ELSE /\ n' = 1
            /\ pc' = "fasterquant"
            /\ quantizer' = "configured"
    /\ UNCHANGED <<loader, fq, model, nsamples, dataloader, err, pending, embedding_layer,
                   transformer_blocks, i, j, inputs, next_block_inputs,
                   sub_layers_map, buffers, bound, original_calls, call, weights, ret>>

(* lines 309-324: add_batch for one name; after the last one the Quantizer *)
(* of the block is created and configured                                  *)
BuildHessian ==
    /\ pc = "build"
    /\ buffers[Block][Name(n)] # <<>>
    /\ LET layer_inputs == buffers[Block][Name(n)]
           dims == InputShape(BlockShape(model, Block), Layer(n)[2])
           num_features == Rows(BlockShape(model, Block), Layer(n)[2])
       IN  /\ ~ReshapeRaises(Elements(layer_inputs, dims), num_features)
           /\ gptq_objects' = [gptq_objects EXCEPT ![<<Block, Name(n)>>] =
                 AddBatch(@, LayerInputs(layer_inputs, dims, num_features))]
    /\ log' = Append(log, Event("add_batch", Block, Name(n), 0 - 1, NoTensor))
    /\ IF n < Len(sub_layers_map)
       THEN /\ n' = n + 1
            /\ pc' = "build"
            /\ UNCHANGED quantizer
       ELSE /\ n' = 1
            /\ pc' = "fasterquant"
            /\ quantizer' = "configured"
    /\ UNCHANGED <<loader, fq, model, nsamples, dataloader, err, pending, embedding_layer,
                   transformer_blocks, i, j, inputs, next_block_inputs,
                   sub_layers_map, buffers, bound, original_calls, call, weights, ret>>

(* ops.concatenate of an empty list, ops.reshape or add_batch raises *)
BuildHessianFail ==
    /\ pc = "build"
    /\ Raise("ValueError")
    /\ log' = Append(log, Event("add_batch_failed", Block, Name(n), 0 - 1, NoTensor))
    /\ UNCHANGED <<loader, fq, model, nsamples, dataloader, pending, embedding_layer,
                   transformer_blocks, i, j, n, inputs, next_block_inputs,
                   sub_layers_map, gptq_objects, buffers, bound, original_calls,
                   call, weights, quantizer, ret>>

(* lines 326-330 *)
Fasterquant ==
    /\ pc = "fasterquant"
    /\ gptq_objects' = [gptq_objects EXCEPT ![<<Block, Name(n)>>] =
                           FasterquantReads(@, weights[Layer(n)], quantizer)]
    /\ weights' = FasterquantWeights(weights, Layer(n), Name(n))
    /\ log' = Append(log, Event("fasterquant", Block, Name(n), 0 - 1, NoTensor))
    /\ pc' = "free"
    /\ UNCHANGED <<loader, fq, model, nsamples, dataloader, err, pending, embedding_layer,
                   transformer_blocks, i, j, n, inputs, next_block_inputs,
                   sub_layers_map, buffers, bound, original_calls,
                   call, quantizer, ret>>

(* variant: the failure is caught and fasterquant is tried again *)
FasterquantRetry ==
    /\ pc = "fasterquant"
    /\ log' = Append(log, Event("fasterquant_failed", Block, Name(n), 0 - 1, NoTensor))
    /\ UNCHANGED <<loader, fq, model, nsamples, dataloader, pc, err, pending, embedding_layer,
                   transformer_blocks, i, j, n, inputs, next_block_inputs,
                   sub_layers_map, gptq_objects, buffers, bound, original_calls,
                   call, weights, quantizer, ret>>

(* fasterquant raises (the Hessian decomposition fails): nothing catches it *)
FasterquantFail ==
    /\ pc = "fasterquant"
    /\ Raise("NumericError")
    /\ log' = Append(log, Event("fasterquant_failed", Block, Name(n), 0 - 1, NoTensor))
    /\ UNCHANGED <<loader, fq, model, nsamples, dataloader, pending, embedding_layer,
                   transformer_blocks, i, j, n, inputs, next_block_inputs,
                   sub_layers_map, gptq_objects, buffers, bound, original_calls,
                   call, weights, quantizer, ret>>

(* variant: add_batch of the next name only after this name is quantized *)
FreeInterleaved ==
    /\ pc = "free"
    /\ gptq_objects' = [gptq_objects EXCEPT ![<<Block, Name(n)>>] = FreeAccumulator(@)]
    /\ log' = Append(log, Event("free", Block, Name(n), 0 - 1, NoTensor))
    /\ IF n < Len(sub_layers_map)
       THEN /\ n' = n + 1
            /\ pc' = "build"
       ELSE /\ n' = n
            /\ pc' = "del"
    /\ UNCHANGED <<loader, fq, model, nsamples, dataloader, err, pending, embedding_layer,
                   transformer_blocks, i, j, inputs, next_block_inputs,
                   sub_layers_map, buffers, bound, original_calls, call, weights,
                   quantizer, ret>>

(* variant: free() is not called *)
FreeSkipped ==
    /\ pc = "free"
    /\ IF n < Len(sub_layers_map)
       THEN /\ n' = n + 1
            /\ pc' = "fasterquant"
       ELSE /\ n' = n
            /\ pc' = "del"
    /\ UNCHANGED <<loader, fq, model, nsamples, dataloader, err, pending, embedding_layer,
                   transformer_blocks, i, j, inputs, next_block_inputs,
                   sub_layers_map, gptq_objects, buffers, bound, original_calls,
                   call, weights, quantizer, ret, log>>

(* line 331, and the step of the loop of line 325 *)
Free ==
    /\ pc = "free"
    /\ gptq_objects' = [gptq_objects EXCEPT ![<<Block, Name(n)>>] = FreeAccumulator(@)]
    /\ log' = Append(log, Event("free", Block, Name(n), 0 - 1, NoTensor))
    /\ IF n < Len(sub_layers_map)
       THEN /\ n' = n + 1
            /\ pc' = "fasterquant"
       ELSE /\ n' = n
            /\ pc' = "del"
    /\ UNCHANGED <<loader, fq, model, nsamples, dataloader, err, pending, embedding_layer,
                   transformer_blocks, i, j, inputs, next_block_inputs,
                   sub_layers_map, buffers, bound, original_calls, call, weights,
                   quantizer, ret>>

(* variant: the accumulators of the block are kept *)
DelKeepsAccumulators ==
    /\ pc = "del"
    /\ bound' = NoLayer
    /\ buffers' = CollectBuffers(model, buffers, NoLayer, call)
    /\ original_calls' = <<>>
    /\ j' = 0
    /\ pc' = "propagate"
    /\ UNCHANGED <<loader, fq, model, nsamples, dataloader, err, pending, embedding_layer,
                   transformer_blocks, i, n, inputs, next_block_inputs,
                   sub_layers_map, gptq_objects, call, weights, quantizer, ret, log>>

(* variant: captured_inputs and original_calls outlive the block *)
DelKeepsBuffers ==
    /\ pc = "del"
    /\ gptq_objects' = [a \in {c \in DOMAIN gptq_objects : c[1] # Block} |->
                           gptq_objects[a]]
    /\ j' = 0
    /\ pc' = "propagate"
    /\ UNCHANGED <<loader, fq, model, nsamples, dataloader, err, pending, embedding_layer,
                   transformer_blocks, i, n, inputs, next_block_inputs,
                   sub_layers_map, buffers, bound, original_calls, call, weights,
                   quantizer, ret, log>>

(* line 333: del gptq_objects, captured_inputs, original_calls *)
Del ==
    /\ pc = "del"
    /\ gptq_objects' = [a \in {c \in DOMAIN gptq_objects : c[1] # Block} |->
                           gptq_objects[a]]
    /\ bound' = NoLayer
    /\ buffers' = CollectBuffers(model, buffers, NoLayer, call)
    /\ original_calls' = <<>>
    /\ j' = 0
    /\ pc' = "propagate"
    /\ UNCHANGED <<loader, fq, model, nsamples, dataloader, err, pending, embedding_layer,
                   transformer_blocks, i, n, inputs, next_block_inputs,
                   sub_layers_map, call, weights, quantizer, ret, log>>

-----------------------------------------------------------------------------
(* PROPAGATE, lines 335-346, and the return of quantize_model *)

(* variant: the output the block gave with its original float weights *)
PropagateOutputFloat(m, W, b, x) ==
    Index0(BlockCall(m, [o \in DOMAIN W |-> <<>>], b, x))

(* line 342: block(current_input)[0] *)
PropagateOutput(m, W, b, x) == Index0(BlockCall(m, W, b, x))

(* a forward pass of the block would run a hook that is still installed *)
StaleHook(tree, blk, calls) ==
    \E q \in 1..Len(Invocations(tree, blk)) :
        calls[Invocations(tree, blk)[q].obj] # <<>>

(* what a hook raises when it evaluates captured_inputs[name]: the name is *)
(* unbound after line 333, or bound to a dict without the hook's key       *)
HookError(bnd) == IF bnd = NoLayer THEN "NameError" ELSE "KeyError"

PropagateStep ==
    /\ pc = "propagate"
    /\ i < Len(transformer_blocks)
    /\ j < nsamples
    /\ ~StaleHook(BlockTree(model, Block), Block, call)
    /\ LET x == CurrentInput(inputs[j + 1])
           outs == Append(next_block_inputs, PropagateOutput(model, weights, Block, x))
       IN /\ log' = Append(log, Event("propagate", Block, <<>>, j, x))
          /\ IF j + 1 = nsamples
             THEN /\ inputs' = outs
                  /\ next_block_inputs' = <<>>
                  /\ pc' = "clear"
             ELSE /\ next_block_inputs' = outs
                  /\ pc' = "propagate"
                  /\ UNCHANGED inputs
    /\ j' = j + 1
    /\ UNCHANGED <<loader, fq, model, nsamples, dataloader, err, pending, embedding_layer,
                   transformer_blocks, i, n, sub_layers_map, gptq_objects, buffers,
                   bound, original_calls, call, weights, quantizer, ret>>

(* line 342 with a hook left installed on a layer of the block: the hook *)
(* runs after captured_inputs was deleted and raises                     *)
PropagateFail ==
    /\ pc = "propagate"
    /\ i < Len(transformer_blocks)
    /\ j < nsamples
    /\ StaleHook(BlockTree(model, Block), Block, call)
    /\ Raise(HookError(bound))
    /\ UNCHANGED <<loader, fq, model, nsamples, dataloader, pending, embedding_layer,
                   transformer_blocks, i, j, n, inputs, next_block_inputs,
                   sub_layers_map, gptq_objects, buffers, bound, original_calls,
                   call, weights, quantizer, ret, log>>

(* line 335 for the last block: no forward pass *)
PropagateSkip ==
    /\ pc = "propagate"
    /\ i >= Len(transformer_blocks)
    /\ pc' = "clear"
    /\ UNCHANGED <<loader, fq, model, nsamples, dataloader, err, pending, embedding_layer,
                   transformer_blocks, i, j, n, inputs, next_block_inputs,
                   sub_layers_map, gptq_objects, buffers, bound, original_calls,
                   call, weights, quantizer, ret, log>>

(* variant: the loop of line 263 does not leave its last iteration *)
ClearSessionNoExit ==
    /\ pc = "clear"
    /\ i' = IF i < Len(transformer_blocks) THEN i + 1 ELSE i
    /\ pc' = IF i < Len(transformer_blocks) THEN "find" ELSE "clear"
    /\ UNCHANGED <<loader, fq, model, nsamples, dataloader, err, pending, embedding_layer,
                   transformer_blocks, j, n, inputs, next_block_inputs,
                   sub_layers_map, gptq_objects, buffers, bound, original_calls,
                   call, weights, quantizer, ret, log>>

(* line 346 and the step of the loop of line 263 *)
ClearSession ==
    /\ pc = "clear"
    /\ i' = i + 1
    /\ pc' = IF i < Len(transformer_blocks) THEN "find" ELSE "return"
    /\ UNCHANGED <<loader, fq, model, nsamples, dataloader, err, pending, embedding_layer,
                   transformer_blocks, j, n, inputs, next_block_inputs,
                   sub_layers_map, gptq_objects, buffers, bound, original_calls,
                   call, weights, quantizer, ret, log>>

(* line 388: return model *)
Return ==
    /\ pc = "return"
    /\ ret' = "model"
    /\ pc' = "done"
    /\ UNCHANGED <<loader, fq, model, nsamples, dataloader, err, pending, embedding_layer,
                   transformer_blocks, i, j, n, inputs, next_block_inputs,
                   sub_layers_map, gptq_objects, buffers, bound, original_calls,
                   call, weights, quantizer, log>>

Next ==
    \/ QuantizeModel
    \/ Discover
    \/ DiscoverFail
    \/ Embed
    \/ FindLayers
    \/ InstallHooks
    \/ InstallHooksFail
    \/ CaptureStep
    \/ CaptureFail
    \/ Finally
    \/ BuildHessian
    \/ BuildHessianFail
    \/ Fasterquant
    \/ FasterquantFail
    \/ Free
    \/ Del
    \/ PropagateStep
    \/ PropagateFail
    \/ PropagateSkip
    \/ ClearSession
    \/ Return

Spec == Init /\ [][Next]_vars

(* the models of Init, each once: exec, which the code never reads, is *)
(* the list order                                                      *)
FairInit ==
    /\ Init
    /\ model.exec = Identity(Len(model.exec))

(* the interpreter keeps executing the one thread until the call returns *)
(* or an exception leaves it                                             *)
FairSpec == FairInit /\ [][Next]_vars /\ WF_vars(Next)

-----------------------------------------------------------------------------
(* Auxiliary definitions for the properties *)

(* position of a block in transformer_blocks *)
BlockIndex(b) == CHOOSE k \in 1..Len(transformer_blocks) : transformer_blocks[k] = b

Registry(b) == FindLayersInBlock(BlockTree(model, b), b)

(* the weights of block b once fasterquant has run for every name of its   *)
(* registry, in registry order                                             *)
QuantizedSnapshot(b) ==
    [o \in BlockObjs(model, b) |->
        SelectSeq(DictKeys(Registry(b)), LAMBDA k : DictVal(Registry(b), k) = o)]

FloatSnapshot(l) == [o \in LayerObjs(model, l) |-> <<>>]

(* what block number k must be fed for the sample at position q *)
ExpectedInput(k, q) ==
    [sample |-> dataloader[q + 1],
     rank |-> 3,
     hist |-> <<[layer |-> embedding_layer, w |-> FloatSnapshot(embedding_layer)]>>
              \o [m \in 1..(k - 1) |->
                    [layer |-> transformer_blocks[m],
                     w |-> QuantizedSnapshot(transformer_blocks[m])]]]

InBlock == pc \in {"install", "capture", "finally", "build", "fasterquant",
                   "free", "del", "propagate", "clear"}

(* C1: every forward pass of a block, in CAPTURE and in PROPAGATE, is fed  *)
(* for sample j the embedding output of sample j passed through the        *)
(* earlier blocks in order, each with all of its registered sub-layers     *)
(* already quantized; block 0 is fed the embedding output itself.          *)
BlockOrderInvariant ==
    \A p \in 1..Len(log) :
        log[p].op \in {"capture", "propagate"} =>
            log[p].x = ExpectedInput(BlockIndex(log[p].blk), log[p].j)

BlockOrderWitness ==
    /\ pc = "done"
    /\ \E p \in 1..Len(log) :
          /\ log[p].op = "capture"
          /\ BlockIndex(log[p].blk) = 2
          /\ log[p].j = 1
          /\ Registry(transformer_blocks[1]) # <<>>

(* C2: outside the CAPTURE phase of a block (hook installation, forward    *)
(* passes, the finally clause) every layer has its original call           *)
(* attribute, whatever the registry and however the phase ended.           *)
ScopedCapture ==
    pc \notin {"install", "capture", "finally"} =>
        \A o \in DOMAIN call : call[o] = <<>>

PhaseRank(op) ==
    CASE op = "GPTQ" -> 0
      [] op \in {"install", "capture", "restore"} -> 1
      [] op \in {"add_batch", "add_batch_failed"} -> 2
      [] op \in {"fasterquant", "fasterquant_failed", "free"} -> 3
      [] op = "propagate" -> 4

(* C3: the operations occur block by block in list order, and within a     *)
(* block in the order CAPTURE, BUILD_HESSIAN, QUANTIZE, PROPAGATE; the     *)
(* embedding passes precede them all.  The order on (block, phase) is      *)
(* transitive, so it is stated for each operation and the next one.        *)
StrictSequencing ==
    \A p \in 1..(Len(log) - 1) :
        LET q == p + 1
        IN /\ log[q].op = "embed" => log[p].op = "embed"
           /\ log[p].op # "embed" /\ log[q].op # "embed" =>
                 \/ BlockIndex(log[p].blk) < BlockIndex(log[q].blk)
                 \/ /\ log[p].blk = log[q].blk
                    /\ PhaseRank(log[p].op) <= PhaseRank(log[q].op)

StrictSequencingWitness ==
    \E p \in 1..Len(log) : \E q \in 1..Len(log) :
        /\ log[p].op = "propagate"
        /\ BlockIndex(log[p].blk) = 1
        /\ log[q].op = "fasterquant"
        /\ BlockIndex(log[q].blk) = 2
        /\ \E r \in 1..Len(log) : log[r].op = "fasterquant" /\ BlockIndex(log[r].blk) = 1

LiveAccumulators == {a \in DOMAIN gptq_objects : ~gptq_objects[a].freed}

AccumulatorCalls(b, key) ==
    LET evs == SelectSeq(log, LAMBDA e :
                   /\ e.blk = b
                   /\ e.key = key
                   /\ e.op \in {"add_batch", "add_batch_failed", "fasterquant",
                                "fasterquant_failed", "free"})
    IN [p \in 1..Len(evs) |->
          CASE evs[p].op = "add_batch_failed" -> "add_batch"
            [] evs[p].op = "fasterquant_failed" -> "fasterquant"
            [] OTHER -> evs[p].op]

Lifecycle == <<"add_batch", "fasterquant", "free">>

IsPrefix(s, t) == Len(s) <= Len(t) /\ s = SubSeq(t, 1, Len(s))

Created == {<<log[p].blk, log[p].key>> : p \in {q \in 1..Len(log) : log[q].op = "GPTQ"}}

(* C5: the calls on every accumulator are add_batch, fasterquant, free,    *)
(* once each and in that order (all three in a run that completes);        *)
(* the free of a name precedes the fasterquant of the next name.           *)
AccumulatorLifecycle ==
    /\ \A a \in Created :
          /\ IsPrefix(AccumulatorCalls(a[1], a[2]), Lifecycle)
          /\ pc = "done" => AccumulatorCalls(a[1], a[2]) = Lifecycle
    /\ \A q \in 1..Len(log) :
          log[q].op \in {"fasterquant", "fasterquant_failed"} =>
              LET keys == DictKeys(Registry(log[q].blk))
                  m == CHOOSE m \in 1..Len(keys) : keys[m] = log[q].key
              IN \A r \in 1..(m - 1) :
                    \E p \in 1..(q - 1) :
                        /\ log[p].op = "free"
                        /\ log[p].blk = log[q].blk
                        /\ log[p].key = keys[r]

AccumulatorLifecycleWitness ==
    /\ pc = "done"
    /\ Cardinality(Created) >= 4

(* the weights that the fasterquant calls that returned have written *)
WeightsFromLog ==
    [o \in AllObjs(model) |->
        LET evs == SelectSeq(log, LAMBDA e :
                       e.op = "fasterquant" /\ DictVal(Registry(e.blk), e.key) = o)
        IN [p \in 1..Len(evs) |-> evs[p].key]]

(* C6: a failing fasterquant is the last thing the run does: the error     *)
(* leaves quantize_model, fasterquant was invoked once for that name, and  *)
(* the layers quantized before keep their new weights.                     *)
FailureSemantics ==
    \A p \in 1..Len(log) :
        log[p].op = "fasterquant_failed" =>
            /\ p = Len(log)
            /\ pc = "error"
            /\ err = "NumericError"
            /\ ret = "none"
            /\ AccumulatorCalls(log[p].blk, log[p].key) = <<"add_batch", "fasterquant">>
            /\ weights = WeightsFromLog

FailureSemanticsWitness ==
    /\ pc = "error"
    /\ log # <<>>
    /\ log[Len(log)].op = "fasterquant_failed"
    /\ BlockIndex(log[Len(log)].blk) = 2
    /\ \E o \in DOMAIN weights : weights[o] # <<>>

NoEmbedding(m) ==
    IF m.has_backbone THEN ~m.token_embedding /\ ~m.embedding
    ELSE \A p \in 1..Len(m.layers) : m.layers[p].kind # "Embedding"

NoBlocks(m) ==
    IF m.has_backbone THEN ~m.has_tl \/ m.transformer_layers = <<>>
    ELSE \A p \in 1..Len(m.layers) : m.layers[p].kind # "Block"

(* C7: a model without embedding layer or without blocks, on either path,  *)
(* makes apply_gptq_layerwise raise a ValueError before any forward pass,  *)
(* hook or weight change.                                                  *)
DiscoveryErrors ==
    (NoEmbedding(model) \/ NoBlocks(model)) /\ pc \notin {"quantize_model", "discover"} =>
        /\ pc = "error"
        /\ err = "ValueError"
        /\ log = <<>>
        /\ \A o \in DOMAIN weights : weights[o] = <<>> /\ call[o] = <<>>

(* place of a top-level layer in the model's forward pass *)
ExecPos(l) ==
    IF model.has_backbone
    THEN (IF l \in {TokenEmbeddingId, EmbeddingId} THEN 0 ELSE model.exec[l])
    ELSE model.exec[l]

(* C8: the blocks are quantized in the order in which the model executes   *)
(* them, and all of them execute after the chosen embedding layer.         *)
BlockOrderMatchesExecution ==
    transformer_blocks # <<>> =>
        /\ \A a \in 1..Len(transformer_blocks) : \A b \in (a + 1)..Len(transformer_blocks) :
              ExecPos(transformer_blocks[a]) < ExecPos(transformer_blocks[b])
        /\ \A a \in 1..Len(transformer_blocks) :
              ExecPos(embedding_layer) < ExecPos(transformer_blocks[a])

RECURSIVE TargetEntries(_, _, _, _)
(* every Dense/EinsumDense node below the given _layers lists, with the    *)
(* key that spells its containment path                                    *)
TargetEntries(tree, kids, prefix, blk) ==
    IF kids = <<>> THEN {}
    ELSE LET nd == tree[Head(kids)]
             path == prefix \o <<".">> \o nd.name
         IN (IF IsTarget(nd.kind) THEN {[key |-> path, val |-> <<blk, nd.obj>>]}
             ELSE TargetEntries(tree, nd.kids, path, blk))
            \cup TargetEntries(tree, Tail(kids), prefix, blk)

(* C9: the registry holds exactly the Dense/EinsumDense layers of the      *)
(* block, each under its containment path, and distinct layer objects      *)
(* have distinct keys.                                                     *)
RegistryComplete ==
    pc \in {"install", "capture", "finally", "build", "fasterquant", "free", "del"} =>
        LET entries == TargetEntries(BlockTree(model, Block), BlockTree(model, Block)[1].kids,
                                     <<"block">>, Block)
        IN /\ {sub_layers_map[p] : p \in 1..Len(sub_layers_map)} = entries
           /\ \A e1 \in entries : \A e2 \in entries :
                 e1.val # e2.val => e1.key # e2.key

(* C10: after a run that completes, fasterquant has been invoked exactly   *)
(* once on every layer object of every block's registry, and               *)
(* quantize_model returns the model it was given.                          *)
EndToEnd ==
    pc = "done" =>
        /\ ret = "model"
        /\ \A k \in 1..Len(transformer_blocks) :
              \A p \in 1..Len(Registry(transformer_blocks[k])) :
                  Len(WeightsFromLog[Registry(transformer_blocks[k])[p].val]) = 1

-----------------------------------------------------------------------------
(* get_dataloader called directly: one action per step of lines 79-179 *)

SampleCounts == {1, 2}

orchestration ==
    <<model, nsamples, dataloader, pc, err, pending, embedding_layer,
      transformer_blocks, i, j, n, inputs, next_block_inputs,
      sub_layers_map, gptq_objects, buffers, bound, original_calls,
      call, weights, quantizer, ret, log>>

(* no quantize_model call is in progress *)
NoQuantizeModel ==
    /\ model = [has_backbone |-> FALSE, layers |-> <<>>,
                token_embedding |-> FALSE, embedding |-> FALSE,
                has_tl |-> FALSE, transformer_layers |-> <<>>, exec |-> <<>>]
    /\ nsamples = 0
    /\ dataloader = <<>>
    /\ pc = "none"
    /\ err = "none"
    /\ pending = "none"
    /\ embedding_layer = NoLayer
    /\ transformer_blocks = <<>>
    /\ i = 0
    /\ j = 0
    /\ n = 0
    /\ inputs = <<>>
    /\ next_block_inputs = <<>>
    /\ sub_layers_map = <<>>
    /\ gptq_objects = <<>>
    /\ buffers = <<>>
    /\ bound = NoLayer
    /\ original_calls = <<>>
    /\ call = <<>>
    /\ weights = <<>>
    /\ quantizer = "none"
    /\ ret = "none"
    /\ log = <<>>

Datasets == SeqsUpTo(0..MaxRecLen, MaxRecords)

LoaderInit ==
    /\ \E kind \in Kinds, recs \in Datasets, ns \in SampleCounts,
          seqlen \in 1..MaxSeqLen :
            loader = Frame(kind, recs, ns, seqlen, 1)
    /\ NoQuantizeModel
    /\ fq = NoFasterquant

(* the call ends with exception e *)
LoaderRaise(f, e) ==
    [f EXCEPT !.pc = "error", !.err = e,
              !.results = Append(@, [err |-> e, samples |-> <<>>])]

(* lines 85-94 and 124-159: every source but "c4" becomes one token stream *)
Load ==
    /\ loader.pc = "start"
    /\ loader.kind # "c4"
    /\ LET lst == DatasetList(loader)
           f == [loader EXCEPT !.consumed = @ \/ loader.kind = "generator"]
       IN  loader' =
             IF loader.kind # "alias" /\ lst = <<>>
             THEN LoaderRaise(f, "ValueError")
             ELSE [f EXCEPT !.pc = "tile",
                            !.all_tokens = AllTokens(loader.kind, lst)]
    /\ UNCHANGED <<orchestration, fq>>

(* lines 161-166 *)
TileTokens ==
    /\ loader.pc = "tile"
    /\ LET required_tokens == loader.nsamples * loader.seqlen
           len == Len(loader.all_tokens)
       IN  loader' =
             IF len >= required_tokens THEN [loader EXCEPT !.pc = "chunk"]
             ELSE IF len = 0 THEN LoaderRaise(loader, "ZeroDivisionError")
             ELSE [loader EXCEPT
                     !.pc = "chunk",
                     !.all_tokens = Tile(@, Repeats(required_tokens, len))]
    /\ UNCHANGED <<orchestration, fq>>

(* lines 171-176: one turn of the for loop; ops.reshape(sample, (1, seqlen)) *)
(* raises when the slice does not hold seqlen tokens                        *)
Chunk ==
    /\ loader.pc = "chunk"
    /\ Len(loader.samples) < loader.nsamples
    /\ LET start_index == StartIndex(Len(loader.samples), loader.seqlen)
           sample == Slice(loader.all_tokens, start_index,
                           start_index + loader.seqlen)
       IN  loader' =
             IF Len(sample) # loader.seqlen
             THEN LoaderRaise(loader, "ValueError")
             ELSE [loader EXCEPT !.samples = Append(@, <<sample>>)]
    /\ UNCHANGED <<orchestration, fq>>

(* lines 122 and 177-179: the samples are stacked and returned *)
LoaderReturn ==
    /\ loader.pc \in {"chunk", "c4_choose"}
    /\ Len(loader.samples) = loader.nsamples
    /\ loader' = [loader EXCEPT
                    !.pc = "done",
                    !.results = Append(@, [err |-> "none",
                                           samples |-> loader.samples])]
    /\ UNCHANGED <<orchestration, fq>>

(* lines 95-101: the first nsamples * 5 documents of the stream *)
C4TakeHead ==
    /\ loader.pc = "start"
    /\ loader.kind = "c4"
    /\ loader' = [loader EXCEPT
                    !.pc = "c4_choose",
                    !.docs_for_sampling =
                        [d \in 1..Min(Len(loader.recs),
                                      loader.nsamples * C4Take) |-> d]]
    /\ UNCHANGED <<orchestration, fq>>

(* line 106: random.choice of an empty list *)
C4ChoiceFail ==
    /\ loader.pc = "c4_choose"
    /\ Len(loader.samples) < loader.nsamples
    /\ loader.docs_for_sampling = <<>>
    /\ loader' = LoaderRaise(loader, "IndexError")
    /\ UNCHANGED <<orchestration, fq>>

(* line 106: doc = random.choice(docs_for_sampling) draws document r *)
C4ChooseDoc(r) ==
    /\ loader.pc = "c4_choose"
    /\ Len(loader.samples) < loader.nsamples
    /\ \E d \in 1..Len(loader.docs_for_sampling) : loader.docs_for_sampling[d] = r
    /\ loader' = [loader EXCEPT !.pc = "c4_tokenize", !.doc = r]
    /\ UNCHANGED <<orchestration, fq>>

C4Choose == \E r \in 1..Len(loader.recs) : C4ChooseDoc(r)

(* lines 107-110: the chosen document is long enough, the loop is left *)
C4Pick ==
    /\ loader.pc = "c4_tokenize"
    /\ ~TokenizeRaises(loader.recs[loader.doc])
    /\ loader.recs[loader.doc] >= loader.seqlen
    /\ loader' = [loader EXCEPT !.pc = "c4_slice"]
    /\ UNCHANGED <<orchestration, fq>>

(* lines 105-110: the chosen document is too short, the loop chooses again *)
C4Retry ==
    /\ loader.pc = "c4_tokenize"
    /\ ~TokenizeRaises(loader.recs[loader.doc])
    /\ loader.recs[loader.doc] < loader.seqlen
    /\ loader' = [loader EXCEPT !.pc = "c4_choose"]
    /\ UNCHANGED <<orchestration, fq>>

(* lines 111-116: tokenizing the chosen document raised *)
C4Remove ==
    /\ loader.pc = "c4_tokenize"
    /\ TokenizeRaises(loader.recs[loader.doc])
    /\ LET d == CHOOSE d \in 1..Len(loader.docs_for_sampling) :
                   loader.docs_for_sampling[d] = loader.doc
           rest == Remove(loader.docs_for_sampling, d)
           f == [loader EXCEPT !.docs_for_sampling = rest, !.pc = "c4_choose"]
       IN  loader' = IF rest = <<>> THEN LoaderRaise(f, "ValueError") ELSE f
    /\ UNCHANGED <<orchestration, fq>>

(* lines 118-120: a window at a random offset of the chosen document *)
C4Slice ==
    /\ loader.pc = "c4_slice"
    /\ LET len == loader.recs[loader.doc]
           tokenized_doc == Tokens(loader.doc, len)
       IN  IF Offsets(len, loader.seqlen) = {}
           THEN loader' = LoaderRaise(loader, "ValueError")
           ELSE \E off \in Offsets(len, loader.seqlen) :
                  loader' = [loader EXCEPT
                     !.pc = "c4_choose",
                     !.samples = Append(@,
                        <<Slice(tokenized_doc, off, off + loader.seqlen)>>)]
    /\ UNCHANGED <<orchestration, fq>>

LoaderNext ==
    \/ Load
    \/ TileTokens
    \/ Chunk
    \/ LoaderReturn
    \/ C4TakeHead
    \/ C4ChoiceFail
    \/ C4Choose
    \/ C4Pick
    \/ C4Retry
    \/ C4Remove
    \/ C4Slice

LoaderSpec == LoaderInit /\ [][LoaderNext]_vars

(* the interpreter keeps running the call, and random.choice, drawing   *)
(* again and again from a list, draws each of its documents again and  *)
(* again                                                               *)
FairLoaderSpec ==
    /\ LoaderInit
    /\ [][LoaderNext]_vars
    /\ WF_vars(LoaderNext)
    /\ \A r \in 1..MaxRecords : SF_vars(C4ChooseDoc(r))

(* get_dataloader called twice with identical arguments *)
RepeatInit ==
    /\ \E kind \in Kinds, recs \in Datasets, seqlen \in 1..MaxSeqLen :
            loader = Frame(kind, recs, 1, seqlen, 2)
    /\ NoQuantizeModel
    /\ fq = NoFasterquant

CallAgain ==
    /\ loader.pc \in {"done", "error"}
    /\ Len(loader.results) < loader.calls
    /\ loader' = [Frame(loader.kind, loader.recs, loader.nsamples,
                        loader.seqlen, loader.calls)
                    EXCEPT !.consumed = loader.consumed,
                           !.results = loader.results]
    /\ UNCHANGED <<orchestration, fq>>

RepeatNext ==
    \/ LoaderNext
    \/ CallAgain

RepeatSpec == RepeatInit /\ [][RepeatNext]_vars


-----------------------------------------------------------------------------
(* Properties of get_dataloader *)

(* the single concatenated token stream of a source *)
SourceStream(f) ==
    IF f.kind = "c4" THEN Concatenate(f.recs, 1) ELSE AllTokens(f.kind, f.recs)

Ended(f) == f.pc \in {"done", "error"}

(* every document of the stream tokenizes and holds at least seqlen tokens *)
C4Usable(f) ==
    /\ f.recs # <<>>
    /\ \A r \in 1..Len(f.recs) :
          ~TokenizeRaises(f.recs[r]) /\ f.recs[r] >= f.seqlen

(* C11: for every source kind, "c4" included, a call with a non-empty     *)
(* token stream (for "c4": documents that all tokenize to at least seqlen *)
(* tokens), nsamples >= 1 and seqlen >= 1 ends without error and returns  *)
(* exactly nsamples samples, each of shape (1, seqlen).                   *)
OutputContract ==
    (/\ Ended(loader)
     /\ Len(loader.results) = 1
     /\ IF loader.kind = "c4" THEN C4Usable(loader)
        ELSE SourceStream(loader) # <<>>)
    => /\ loader.err = "none"
       /\ Len(loader.samples) = loader.nsamples
       /\ \A k \in 1..Len(loader.samples) :
             /\ Len(loader.samples[k]) = 1
             /\ Len(loader.samples[k][1]) = loader.seqlen


(* token p (0-based) of the samples laid end to end *)
FlatToken(f, p) == f.samples[(p \div f.seqlen) + 1][1][(p % f.seqlen) + 1]

(* token p (0-based) of the source stream repeated without end *)
StreamToken(f, p) == SourceStream(f)[(p % Len(SourceStream(f))) + 1]

(* every sample has shape (1, seqlen) *)
WellShaped(f) ==
    \A k \in 1..Len(f.samples) :
        Len(f.samples[k]) = 1 /\ Len(f.samples[k][1]) = f.seqlen

(* sample k is tokens [k*seqlen, (k+1)*seqlen) of the (tiled) stream *)
Contiguous(f) ==
    /\ Len(f.samples) = f.nsamples
    /\ WellShaped(f)
    /\ \A p \in 0..(f.nsamples * f.seqlen - 1) :
          FlatToken(f, p) = StreamToken(f, p)

(* sample k is a window of seqlen tokens of one document, starting at an *)
(* offset between 0 and len - seqlen - 1                                 *)
DocumentWindows(f) ==
    /\ Len(f.samples) = f.nsamples
    /\ \A k \in 1..Len(f.samples) :
          \E r \in 1..Len(f.recs) :
             \E off \in 0..(f.recs[r] - f.seqlen - 1) :
                f.samples[k] =
                   <<SubSeq(Tokens(r, f.recs[r]), off + 1, off + f.seqlen)>>

Determinism ==
    (Ended(loader) /\ Len(loader.results) = 2) =>
        loader.results[1] = loader.results[2]


(* C15: an empty calibration dataset -- an iterable that yields no       *)
(* records, or records whose concatenated token stream has length 0 --   *)
(* is rejected with a ValueError before any sample is produced, never    *)
(* with a division or slicing error.                                     *)
EmptyRejected ==
    (/\ Ended(loader)
     /\ Len(loader.results) = 1
     /\ loader.kind \in {"strings", "tokens", "generator"}
     /\ SourceStream(loader) = <<>>)
    => /\ loader.err = "ValueError"
       /\ loader.samples = <<>>


-----------------------------------------------------------------------------
(* Properties of BUILD_HESSIAN and QUANTIZE *)

RegisteredObj(b, key) == DictVal(Registry(b), key)[2]

FeatureCount(b, key) ==
    LET dims == InputShape(BlockShape(model, b), RegisteredObj(b, key))
    IN  dims[Len(dims)]

ExpectedFeatures(b, key) == Rows(BlockShape(model, b), RegisteredObj(b, key))

Accumulated == {p \in 1..Len(log) : log[p].op \in {"add_batch", "fasterquant"}}

(* C16: a sub-layer whose captured inputs have a feature count (last     *)
(* dimension) different from gptq_object.rows is never accumulated and   *)
(* its weights are never overwritten: the run fails in BUILD_HESSIAN.    *)
FeatureMismatchFails ==
    \A p \in Accumulated :
        FeatureCount(log[p].blk, log[p].key) = ExpectedFeatures(log[p].blk, log[p].key)

-----------------------------------------------------------------------------
(* Properties of layer discovery *)

(* discovery has returned an embedding layer and blocks *)
Discovered == embedding_layer # NoLayer

OfKind(m, kind) == {p \in 1..Len(m.layers) : m.layers[p].kind = kind}

(* C20: with a backbone, the blocks are exactly backbone.transformer_layers *)
(* in order and the embedding is token_embedding if present, else          *)
(* embedding; without one, the embedding is the first Embedding layer of   *)
(* model.layers and the blocks are the layers with sub-layers other than   *)
(* it, in model.layers order; later Embedding layers and layers without    *)
(* sub-layers are neither.                                                 *)
DiscoverySelection ==
    Discovered =>
        IF model.has_backbone
        THEN /\ transformer_blocks = [b \in 1..Len(model.transformer_layers) |-> b]
             /\ embedding_layer = IF model.token_embedding THEN TokenEmbeddingId
                                  ELSE EmbeddingId
             /\ model.token_embedding \/ model.embedding
        ELSE /\ embedding_layer \in OfKind(model, "Embedding")
             /\ \A p \in OfKind(model, "Embedding") : embedding_layer <= p
             /\ {transformer_blocks[k] : k \in 1..Len(transformer_blocks)}
                   = OfKind(model, "Block")
             /\ \A k \in 1..(Len(transformer_blocks) - 1) :
                   transformer_blocks[k] < transformer_blocks[k + 1]

DiscoverySelectionWitness ==
    /\ pc = "embed"
    /\ ~model.has_backbone
    /\ Len(model.layers) = 3
    /\ model.layers[1].kind = "Embedding"
    /\ model.layers[2].kind = "Block"
    /\ model.layers[3].kind = "Embedding"
    /\ embedding_layer = 1
    /\ transformer_blocks = <<2>>

-----------------------------------------------------------------------------
(* BUILD_HESSIAN and QUANTIZE of a block with the calls on different       *)
(* sub-layers interleaved: for each name the order add_batch,              *)
(* fasterquant, free of lines 308-331 is kept, and so is the order of the  *)
(* fasterquant calls on one layer object; everything else may happen in    *)
(* any order.                                                              *)

Accumulator(k) == gptq_objects[<<Block, Name(k)>>]

ParallelInit ==
    /\ Init
    /\ model.has_backbone
    /\ model.token_embedding
    /\ model.has_tl

(* lines 321-324: the Quantizer of the block is created and configured *)
ParConfigure ==
    /\ pc = "build"
    /\ quantizer # "configured"
    /\ quantizer' = "configured"
    /\ UNCHANGED <<loader, fq, model, nsamples, dataloader, pc, err, pending,
                   embedding_layer, transformer_blocks, i, j, n, inputs,
                   next_block_inputs, sub_layers_map, gptq_objects, buffers,
                   bound, original_calls, call, weights, ret, log>>

(* variant: the names of a block share one accumulator object *)
ParAddBatchShared(k) ==
    /\ pc = "build"
    /\ Accumulator(k).H = <<>>
    /\ ~Accumulator(k).freed
    /\ buffers[Block][Name(k)] # <<>>
    /\ LET layer_inputs == buffers[Block][Name(k)]
           dims == InputShape(BlockShape(model, Block), Layer(k)[2])
           num_features == Rows(BlockShape(model, Block), Layer(k)[2])
       IN  /\ ~ReshapeRaises(Elements(layer_inputs, dims), num_features)
           /\ gptq_objects' =
                 [a \in DOMAIN gptq_objects |->
                    IF a[1] = Block
                    THEN AddBatch(gptq_objects[a],
                                  LayerInputs(layer_inputs, dims, num_features))
                    ELSE gptq_objects[a]]
    /\ UNCHANGED <<loader, fq, model, nsamples, dataloader, pc, err, pending,
                   embedding_layer, transformer_blocks, i, j, n, inputs,
                   next_block_inputs, sub_layers_map, buffers, bound,
                   original_calls, call, weights, quantizer, ret, log>>

(* lines 309-319 for the name at position k of the registry *)
ParAddBatch(k) ==
    /\ pc = "build"
    /\ Accumulator(k).H = <<>>
    /\ ~Accumulator(k).freed
    /\ buffers[Block][Name(k)] # <<>>
    /\ LET layer_inputs == buffers[Block][Name(k)]
           dims == InputShape(BlockShape(model, Block), Layer(k)[2])
           num_features == Rows(BlockShape(model, Block), Layer(k)[2])
       IN  /\ ~ReshapeRaises(Elements(layer_inputs, dims), num_features)
           /\ gptq_objects' = [gptq_objects EXCEPT ![<<Block, Name(k)>>] =
                 AddBatch(@, LayerInputs(layer_inputs, dims, num_features))]
    /\ UNCHANGED <<loader, fq, model, nsamples, dataloader, pc, err, pending,
                   embedding_layer, transformer_blocks, i, j, n, inputs,
                   next_block_inputs, sub_layers_map, buffers, bound,
                   original_calls, call, weights, quantizer, ret, log>>

(* lines 326-330 for the name at position k *)
ParFasterquant(k) ==
    /\ pc = "build"
    /\ quantizer = "configured"
    /\ Accumulator(k).H # <<>>
    /\ Accumulator(k).read = <<>>
    /\ \A q \in 1..(k - 1) : Layer(q) = Layer(k) => Accumulator(q).read # <<>>
    /\ gptq_objects' = [gptq_objects EXCEPT ![<<Block, Name(k)>>] =
                           FasterquantReads(@, weights[Layer(k)], quantizer)]
    /\ weights' = FasterquantWeights(weights, Layer(k), Name(k))
    /\ UNCHANGED <<loader, fq, model, nsamples, dataloader, pc, err, pending,
                   embedding_layer, transformer_blocks, i, j, n, inputs,
                   next_block_inputs, sub_layers_map, buffers, bound,
                   original_calls, call, quantizer, ret, log>>

(* line 331 for the name at position k *)
ParFree(k) ==
    /\ pc = "build"
    /\ Accumulator(k).read # <<>>
    /\ ~Accumulator(k).freed
    /\ gptq_objects' = [gptq_objects EXCEPT ![<<Block, Name(k)>>] =
                           FreeAccumulator(@)]
    /\ UNCHANGED <<loader, fq, model, nsamples, dataloader, pc, err, pending,
                   embedding_layer, transformer_blocks, i, j, n, inputs,
                   next_block_inputs, sub_layers_map, buffers, bound,
                   original_calls, call, weights, quantizer, ret, log>>

(* every name of the block is quantized and freed: on to line 333 *)
ParJoin ==
    /\ pc = "build"
    /\ \A k \in 1..Len(sub_layers_map) : Accumulator(k).freed
    /\ pc' = "del"
    /\ n' = Len(sub_layers_map)
    /\ UNCHANGED <<loader, fq, model, nsamples, dataloader, err, pending,
                   embedding_layer, transformer_blocks, i, j, inputs,
                   next_block_inputs, sub_layers_map, gptq_objects, buffers,
                   bound, original_calls, call, weights, quantizer, ret, log>>

ParallelNext ==
    \/ QuantizeModel
    \/ Discover
    \/ Embed
    \/ FindLayers
    \/ InstallHooks
    \/ InstallHooksFail
    \/ CaptureStep
    \/ CaptureFail
    \/ Finally
    \/ ParConfigure
    \/ \E k \in 1..Len(sub_layers_map) : ParAddBatch(k)
    \/ \E k \in 1..Len(sub_layers_map) : ParFasterquant(k)
    \/ \E k \in 1..Len(sub_layers_map) : ParFree(k)
    \/ ParJoin
    \/ BuildHessianFail
    \/ Del
    \/ PropagateStep
    \/ PropagateFail
    \/ PropagateSkip
    \/ ClearSession
    \/ Return

ParallelSpec == ParallelInit /\ [][ParallelNext]_vars

(* what the sequential order gives fasterquant to read for the name at *)
(* position k: the layer's weights as the earlier names of the same    *)
(* layer object left them, the Hessian of the name's own captured      *)
(* inputs, the configured quantizer                                    *)
SequentialReads(k) ==
    [W |-> SelectSeq([q \in 1..(k - 1) |-> Name(q)],
                     LAMBDA key : DictVal(sub_layers_map, key) = Layer(k)),
     H |-> <<LayerInputs(buffers[Block][Name(k)],
                         InputShape(BlockShape(model, Block), Layer(k)[2]),
                         Rows(BlockShape(model, Block), Layer(k)[2]))>>,
     quantizer |-> "configured"]

-----------------------------------------------------------------------------
(* GPTQ.fasterquant called on a matrix: one action per step of the column  *)
(* loop                                                                    *)

FasterquantInit ==
    /\ \E columns \in 1..MaxColumns, blocksize \in 1..MaxBlockSize,
          group_size \in 1..MaxGroupSize, act_order \in BOOLEAN :
          \E perm \in Orders(columns, act_order) :
             fq = FasterquantFrame(columns, blocksize, group_size, perm)
    /\ NoQuantizeModel
    /\ loader = NoCall

(* one column: find the parameters if a group starts here, quantize the   *)
(* column, add its error to the later columns of the block                *)
QuantizeColumn ==
    /\ fq.pc = "column"
    /\ fq.i1 + fq.k < BlockEnd(fq.i1, fq.blocksize, fq.columns)
    /\ LET p == fq.i1 + fq.k
           i2 == BlockEnd(fq.i1, fq.blocksize, fq.columns)
           params == IF NeedsParams(fq.i1, fq.k, fq.group_size)
                     THEN FindParams(p, fq.group_size, fq.columns)
                     ELSE fq.params
       IN  fq' = [fq EXCEPT
                    !.params = params,
                    !.Q = Append(@, p),
                    !.used[p] = params,
                    !.seen[p] = fq.applied[p],
                    !.applied = [c \in DOMAIN @ |->
                                   IF c \in LaterInBlock(p, i2)
                                   THEN @[c] \cup {p} ELSE @[c]],
                    !.k = @ + 1]
    /\ UNCHANGED <<orchestration, loader>>

(* the end of a block: its accumulated error goes to all later blocks *)
PropagateBlockError ==
    /\ fq.pc = "column"
    /\ fq.i1 + fq.k = BlockEnd(fq.i1, fq.blocksize, fq.columns)
    /\ LET i2 == BlockEnd(fq.i1, fq.blocksize, fq.columns)
       IN  fq' = [fq EXCEPT
                    !.applied = [c \in DOMAIN @ |->
                                   IF c \in LaterBlocks(i2, fq.blocksize, fq.columns)
                                   THEN @[c] \cup (fq.i1..(i2 - 1)) ELSE @[c]],
                    !.i1 = i2,
                    !.k = 0,
                    !.pc = IF i2 = fq.columns THEN "permute" ELSE "column"]
    /\ UNCHANGED <<orchestration, loader>>

(* step 5: the quantized columns go back to their original places *)
PermuteBack ==
    /\ fq.pc = "permute"
    /\ fq' = [fq EXCEPT
                !.out = [c \in 1..fq.columns |->
                           CHOOSE p \in 0..(fq.columns - 1) : fq.perm[p + 1] = c - 1],
                !.pc = "done"]
    /\ UNCHANGED <<orchestration, loader>>

FasterquantNext ==
    \/ QuantizeColumn
    \/ PropagateBlockError
    \/ PermuteBack

FasterquantSpec == FasterquantInit /\ [][FasterquantNext]_vars

-----------------------------------------------------------------------------
(* Properties of GPTQ.fasterquant *)

Quantized == {fq.Q[q] : q \in 1..Len(fq.Q)}

Range(grp) == grp.lo..(grp.hi - 1)

GroupsUsed == {fq.used[p] : p \in Quantized}

(* C18: for every channel count and every group_size >= 1, dividing it   *)
(* or not, the groups are contiguous ranges of group_size channels (the  *)
(* last possibly shorter) that overlap nowhere and leave no gap, and     *)
(* each channel is quantized with the parameters of the one group that   *)
(* contains it.                                                          *)
GroupPartition ==
    fq.pc # "none" =>
       /\ \A p \in Quantized : p \in Range(fq.used[p])
       /\ \A grp \in GroupsUsed :
             /\ 0 <= grp.lo /\ grp.lo < grp.hi /\ grp.hi <= fq.columns
             /\ grp.hi - grp.lo = fq.group_size
                \/ (grp.hi = fq.columns /\ grp.hi - grp.lo < fq.group_size)
       /\ \A g1 \in GroupsUsed : \A g2 \in GroupsUsed :
             g1 # g2 => Range(g1) \cap Range(g2) = {}
       /\ fq.pc = "done" =>
             UNION {Range(grp) : grp \in GroupsUsed} = 0..(fq.columns - 1)

(* four columns in groups of three, processed in blocks of two *)
GroupPartitionWitness ==
    /\ fq.pc = "done"
    /\ fq.columns = 4
    /\ fq.group_size = 3
    /\ fq.blocksize = 2
    /\ GroupsUsed = {[lo |-> 0, hi |-> 3], [lo |-> 3, hi |-> 4]}

(* C19: the columns are quantized one by one in increasing processing    *)
(* order, in blocks of blocksize columns (the last block possibly        *)
(* smaller); when a column is quantized the error of every earlier       *)
(* column has been added to it, within the block at once and across      *)
(* blocks at the end of the earlier block; no column is quantized twice  *)
(* and none is corrected after it was quantized.                         *)
ErrorCompensation ==
    fq.pc # "none" =>
       /\ fq.Q = [q \in 1..Len(fq.Q) |-> q - 1]
       /\ \A p \in Quantized :
             /\ fq.seen[p] = 0..(p - 1)
             /\ fq.applied[p] = fq.seen[p]
       /\ fq.i1 % fq.blocksize = 0 \/ fq.i1 = fq.columns
       /\ fq.k <= fq.blocksize
       /\ Len(fq.Q) = fq.i1 + fq.k
       /\ fq.pc = "done" => Len(fq.Q) = fq.columns

(* four reordered columns in blocks of three: a last block of one column *)
ErrorCompensationWitness ==
    /\ fq.pc = "done"
    /\ fq.columns = 4
    /\ fq.blocksize = 3
    /\ fq.perm = <<3, 1, 0, 2>>
    /\ fq.seen[3] = {0, 1, 2}

-----------------------------------------------------------------------------
(* Properties of the per-block state of apply_gptq_layerwise *)

(* the block is being captured, accumulated or quantized *)
Processing == pc \in {"install", "capture", "finally", "build", "fasterquant",
                      "free", "del"}

(* between blocks: the block is finished or the next has not begun *)
Between == pc \in {"propagate", "clear", "find", "return", "done"}

(* the entries handed to add_batch for the name at position k *)
BatchData(k) == Accumulator(k).H[1].data

(* hook invocations per forward pass that fill the list of that name *)
PerPass(k) == Len(BatchData(k)) \div nsamples

(* C21: the registry, the capture buffers, the saved calls and the        *)
(* accumulators are those of the current block only and none is left      *)
(* between blocks; the inputs a block-k Hessian is built from were        *)
(* recorded by block k's own capture passes, one pass per calibration     *)
(* sample in sample order, each fed block k's input for that sample.      *)
FreshBlockState ==
    /\ Processing =>
          /\ sub_layers_map = Registry(Block)
          /\ DOMAIN gptq_objects = AccKeys(sub_layers_map, Block)
          /\ DOMAIN buffers \subseteq {Block}
          /\ bound \in {Block, NoLayer}
          /\ \A p \in 1..Len(original_calls) : DictHas(sub_layers_map, original_calls[p].key)
    /\ Between =>
          /\ DOMAIN gptq_objects = {}
          /\ DOMAIN buffers = {}
          /\ bound = NoLayer
          /\ original_calls = <<>>
    /\ Processing =>
          \A k \in 1..Len(sub_layers_map) :
              Accumulator(k).H # <<>> =>
                  /\ Len(Accumulator(k).H) = 1
                  /\ PerPass(k) >= 1
                  /\ Len(BatchData(k)) = PerPass(k) * nsamples
                  /\ \A q \in 1..Len(BatchData(k)) :
                        LET s == (q - 1) \div PerPass(k)
                        IN  /\ BatchData(k)[q].inp = ExpectedInput(i, s)
                            /\ \E p \in 1..Len(log) :
                                  /\ log[p].op = "capture"
                                  /\ log[p].blk = Block
                                  /\ log[p].j = s
                                  /\ log[p].x = BatchData(k)[q].inp

(* the second block's Hessians are built after a first block was quantized *)
FreshBlockStateWitness ==
    /\ pc = "fasterquant"
    /\ i = 2
    /\ nsamples = 2
    /\ Registry(transformer_blocks[1]) # <<>>
    /\ Len(sub_layers_map) >= 2
    /\ \A k \in 1..Len(sub_layers_map) : Len(BatchData(k)) >= 2

(* positions of the log with one of the operations ops on block b *)
Ops(b, ops) == {p \in 1..Len(log) : log[p].blk = b /\ log[p].op \in ops}

(* C22: when a fasterquant of a block starts, the nsamples capture passes *)
(* of the block and the add_batch of every name of its registry are done  *)
(* and none follows; every entry a Hessian of block k is built from was   *)
(* computed with all weights of block k as they were before quantization  *)
(* and from an input that went through the quantized blocks before k.     *)
HessianBeforeQuantize ==
    /\ \A q \in 1..Len(log) :
          log[q].op \in {"fasterquant", "fasterquant_failed"} =>
             LET b == log[q].blk
             IN  /\ Cardinality(Ops(b, {"capture"}) \cap 1..q) = nsamples
                 /\ {log[p].key : p \in Ops(b, {"add_batch"}) \cap 1..q}
                       = {Registry(b)[p].key : p \in 1..Len(Registry(b))}
                 /\ \A p \in Ops(b, {"install", "capture", "restore", "add_batch"}) :
                       p < q
    /\ Processing =>
          \A k \in 1..Len(sub_layers_map) :
              Accumulator(k).H # <<>> =>
                  \A q \in 1..Len(BatchData(k)) :
                      /\ BatchData(k)[q].w = FloatSnapshot(Block)
                      /\ BatchData(k)[q].inp.hist = ExpectedInput(i, 0).hist

(* the second block is being quantized: one name done, the next pending *)
HessianBeforeQuantizeWitness ==
    /\ pc = "fasterquant"
    /\ i = 2
    /\ n = 2
    /\ nsamples = 2
    /\ weights[Layer(1)] # <<>>
    /\ Layer(2) # Layer(1)
    /\ weights[Layer(2)] = <<>>
    /\ \E o \in BlockObjs(model, transformer_blocks[1]) : weights[o] # <<>>

-----------------------------------------------------------------------------
(* Termination of apply_gptq_layerwise *)

Terminated == pc \in {"done", "error"}

(* the samples for which block b was run forward by PROPAGATE, in order *)
Propagated(b) ==
    LET evs == SelectSeq(log, LAMBDA e : e.op = "propagate" /\ e.blk = b)
    IN  [p \in 1..Len(evs) |-> evs[p].j]

(* a run that returned went through every block once: the hooks of every *)
(* block with a registry were restored once, every block but the last    *)
(* was run forward once per sample, the last block never                 *)
EachBlockOnce ==
    /\ i = Len(transformer_blocks) + 1
    /\ err = "none"
    /\ \A k \in 1..Len(transformer_blocks) :
          LET b == transformer_blocks[k]
          IN  /\ Cardinality(Ops(b, {"restore"})) =
                    (IF Registry(b) = <<>> THEN 0 ELSE 1)
              /\ Propagated(b) = IF k < Len(transformer_blocks)
                                 THEN [p \in 1..nsamples |-> p - 1]
                                 ELSE <<>>

(* C23: every run of apply_gptq_layerwise ends, by an exception or in    *)
(* DONE; no run stops anywhere else; a run that reaches DONE processed   *)
(* each block exactly once and ran PROPAGATE for exactly the blocks that *)
(* are not the last.                                                     *)
Termination ==
    /\ <>Terminated
    /\ []((~ENABLED Next) => Terminated)
    /\ [](pc = "done" => EachBlockOnce)
    /\ [](\A p \in 1..Len(log) :
             log[p].op = "propagate" =>
                 BlockIndex(log[p].blk) < Len(transformer_blocks))

(* a returned run over two blocks with two samples *)
TerminationWitness ==
    /\ pc = "done"
    /\ Len(transformer_blocks) = 2
    /\ nsamples = 2
    /\ Propagated(transformer_blocks[1]) = <<0, 1>>
    /\ Registry(transformer_blocks[2]) # <<>>


-----------------------------------------------------------------------------
(* quantize_model with its call of get_dataloader carried out step by step: *)
(* lines 359-362 start the call, the steps of get_dataloader run, lines     *)
(* 366-379 slice the result and enter apply_gptq_layerwise.                 *)

Custom(ls) ==
    [has_backbone |-> FALSE, layers |-> ls, token_embedding |-> FALSE,
     embedding |-> FALSE, has_tl |-> FALSE, transformer_layers |-> <<>>,
     exec |-> Identity(Len(ls))]

PipelineModels ==
    {Custom(<<TopLayer("Embedding", "NONE"), TopLayer("Block", "EMPTY"),
              TopLayer("Block", "PLAIN")>>),
     Custom(<<TopLayer("Embedding", "NONE"), TopLayer("Block", "ALIAS"),
              TopLayer("Block", "PLAIN")>>),
     Custom(<<TopLayer("Leaf", "NONE")>>)}

(* config.dataset: no record, one record of no or of three tokens, a *)
(* record of three tokens and one of a single token                  *)
PipelineDatasets == {<<>>, <<0>>, <<3>>, <<3, 1>>}

(* config.seqlen *)
PipelineSeqLens == {2, 3}

(* config holds the dataset, the tokenizer, seqlen and nsamples *)
Config(kind, recs, seqlen) ==
    [Frame(kind, recs, 0, seqlen, 1) EXCEPT !.pc = "config"]

PipelineInit ==
    /\ model \in PipelineModels
    /\ nsamples \in {1, MaxSamples}
    /\ \E kind \in Kinds, recs \in PipelineDatasets, seqlen \in PipelineSeqLens :
          loader = Config(kind, recs, seqlen)
    /\ dataloader = <<>>
    /\ pc = "quantize_model"
    /\ err = "none"
    /\ pending = "none"
    /\ embedding_layer = NoLayer
    /\ transformer_blocks = <<>>
    /\ i = 0
    /\ j = 0
    /\ n = 0
    /\ inputs = <<>>
    /\ next_block_inputs = <<>>
    /\ sub_layers_map = <<>>
    /\ gptq_objects = <<>>
    /\ buffers = <<>>
    /\ bound = NoLayer
    /\ original_calls = <<>>
    /\ call = [o \in AllObjs(model) |-> <<>>]
    /\ weights = [o \in AllObjs(model) |-> <<>>]
    /\ quantizer = "none"
    /\ ret = "none"
    /\ log = <<>>
    /\ fq = NoFasterquant

unloaded ==
    <<model, nsamples, dataloader, err, pending, embedding_layer,
      transformer_blocks, i, j, n, inputs, next_block_inputs, sub_layers_map,
      gptq_objects, buffers, bound, original_calls, call, weights, quantizer,
      ret, log, fq>>

(* lines 359-362: get_dataloader is called for config.nsamples + 50 samples *)
QuantizeModelCall ==
    /\ pc = "quantize_model"
    /\ loader.pc = "config"
    /\ loader' = Frame(loader.kind, loader.recs, nsamples + ExtraSamples,
                       loader.seqlen, 1)
    /\ pc' = "get_dataloader"
    /\ UNCHANGED unloaded

(* lines 366-379: the first config.nsamples samples and their number go *)
(* to apply_gptq_layerwise                                              *)
QuantizeModelSlice ==
    /\ pc = "get_dataloader"
    /\ loader.pc = "done"
    /\ dataloader' = CalibrationSlice(loader.samples, nsamples)
    /\ nsamples' = Len(dataloader')
    /\ pc' = "discover"
    /\ UNCHANGED <<loader, fq, model, err, pending, embedding_layer, transformer_blocks,
                   i, j, n, inputs, next_block_inputs, sub_layers_map, gptq_objects,
                   buffers, bound, original_calls, call, weights, quantizer, ret, log>>

(* the exception of get_dataloader leaves quantize_model *)
QuantizeModelRaise ==
    /\ pc = "get_dataloader"
    /\ loader.pc = "error"
    /\ Raise(loader.err)
    /\ UNCHANGED <<loader, fq, model, nsamples, dataloader, pending, embedding_layer,
                   transformer_blocks, i, j, n, inputs, next_block_inputs,
                   sub_layers_map, gptq_objects, buffers, bound, original_calls,
                   call, weights, quantizer, ret, log>>

PipelineNext ==
    \/ QuantizeModelCall
    \/ LoaderNext
    \/ QuantizeModelSlice
    \/ QuantizeModelRaise
    \/ Discover
    \/ DiscoverFail
    \/ Embed
    \/ FindLayers
    \/ InstallHooks
    \/ InstallHooksFail
    \/ CaptureStep
    \/ CaptureFail
    \/ Finally
    \/ BuildHessian
    \/ BuildHessianFail
    \/ Fasterquant
    \/ FasterquantFail
    \/ Free
    \/ Del
    \/ PropagateStep
    \/ PropagateFail
    \/ PropagateSkip
    \/ ClearSession
    \/ Return

PipelineSpec == PipelineInit /\ [][PipelineNext]_vars

(* what the one call of get_dataloader returned *)
Pipeline == loader.results[1].samples

(* the samples the embedding layer was run on, in order *)
Fed ==
    LET evs == SelectSeq(log, LAMBDA e : e.op = "embed")
    IN  [p \in 1..Len(evs) |-> evs[p].x.sample]

(* C24: quantize_model calls get_dataloader once, for config.nsamples + 50 *)
(* samples; apply_gptq_layerwise receives config.nsamples as nsamples and  *)
(* the first config.nsamples samples of the pipeline, sample k at place k; *)
(* the model is fed these and no other sample.                             *)
CalibrationSplit ==
    /\ Len(loader.results) <= 1
    /\ loader.pc # "config" => loader.nsamples = nsamples + ExtraSamples
    /\ pc \notin {"quantize_model", "get_dataloader"} /\ loader.err = "none" =>
          /\ Len(loader.results) = 1
          /\ loader.pc = "done"
          /\ loader.kind = "generator" => loader.consumed
          /\ Len(Pipeline) = nsamples + ExtraSamples
          /\ Len(dataloader) = nsamples
          /\ \A k \in 1..nsamples : dataloader[k] = Pipeline[k]
          /\ IsPrefix(Fed, dataloader)
          /\ pc \notin {"discover", "embed", "error"} => Fed = dataloader

(* two calibration samples cut from a tiled stream of three tokens *)
CalibrationSplitWitness ==
    /\ pc = "done"
    /\ loader.kind = "generator"
    /\ nsamples = 2
    /\ loader.seqlen = 2
    /\ Fed = << << << <<1, 1>>, <<1, 2>> >> >>, << << <<1, 3>>, <<1, 1>> >> >> >>

-----------------------------------------------------------------------------
(* Frame of apply_gptq_layerwise *)

(* the layer objects held by the registry of some block *)
Registered ==
    UNION {{Registry(transformer_blocks[k])[p].val :
               p \in 1..Len(Registry(transformer_blocks[k]))} :
           k \in 1..Len(transformer_blocks)}

(* the class of the layer object o of block b *)
KindsOf(b, o) ==
    {BlockTree(model, b)[q].kind :
        q \in {q \in 1..Len(BlockTree(model, b)) : BlockTree(model, b)[q].obj = o}}

(* C25: in every state of a run, a layer whose weights differ from the   *)
(* original ones is held by the registry of a block; the embedding       *)
(* layers, the top-level layers without sub-layers and the layers inside *)
(* blocks that are neither Dense nor EinsumDense keep their weights.     *)
FrameWeights ==
    \A o \in DOMAIN weights :
        /\ weights[o] # <<>> => o \in Registered
        /\ o[2] = "self" => weights[o] = <<>>
        /\ (o[2] # "self" /\ KindsOf(o[1], o[2]) \cap {"Dense", "EinsumDense"} = {})
              => weights[o] = <<>>

(* a returned run on a model with an output head after a quantized block *)
FrameWeightsWitness ==
    /\ pc = "done"
    /\ ~model.has_backbone
    /\ Len(model.layers) = 3
    /\ model.layers[1].kind = "Embedding"
    /\ model.layers[2] = TopLayer("Block", "PLAIN")
    /\ model.layers[3].kind = "Leaf"
    /\ weights[<<2, "A">>] # <<>>
    /\ weights[<<2, "B">>] # <<>>
    /\ weights[<<2, "N">>] = <<>>
    /\ weights[<<3, "self">>] = <<>>


-----------------------------------------------------------------------------
(* The capture hooks under every way a block's call can invoke a layer:  *)
(* with the input as first positional argument, as the keyword inputs,   *)
(* under another keyword, or not at all (lines 279-301).                 *)

HookShapes == {"PLAIN", "ALIAS"} \cup CallShapes

HookModels ==
    {Custom(<<TopLayer("Embedding", "NONE"), TopLayer("Block", s1),
              TopLayer("Block", s2)>>) : s1 \in HookShapes, s2 \in HookShapes}
    \cup {Custom(<<TopLayer("Leaf", "NONE")>>)}

HookInit ==
    /\ model \in HookModels
    /\ nsamples \in {1, MaxSamples}
    /\ dataloader = <<>>
    /\ pc = "quantize_model"
    /\ err = "none"
    /\ pending = "none"
    /\ embedding_layer = NoLayer
    /\ transformer_blocks = <<>>
    /\ i = 0
    /\ j = 0
    /\ n = 0
    /\ inputs = <<>>
    /\ next_block_inputs = <<>>
    /\ sub_layers_map = <<>>
    /\ gptq_objects = <<>>
    /\ buffers = <<>>
    /\ bound = NoLayer
    /\ original_calls = <<>>
    /\ call = [o \in AllObjs(model) |-> <<>>]
    /\ weights = [o \in AllObjs(model) |-> <<>>]
    /\ quantizer = "none"
    /\ ret = "none"
    /\ log = <<>>
    /\ loader = NoCall
    /\ fq = NoFasterquant

HookNext ==
    \/ Next
    \/ CaptureKeyError

HookSpec == HookInit /\ [][HookNext]_vars

RECURSIVE Entries(_, _)
(* the number of entries the lists of the names hold together *)
Entries(buf, names) ==
    IF names = {} THEN 0
    ELSE LET h == CHOOSE h \in names : TRUE
         IN Len(buf[h]) + Entries(buf, names \ {h})

(* the hooked invocations of one forward pass of the block *)
Hooked(b) ==
    SelectSeq(Invocations(BlockTree(model, b), b), LAMBDA inv : call[inv.obj] # <<>>)

(* the block b passes some registered layer no input a hook can read, or *)
(* never invokes it                                                      *)
Unsupported(b) ==
    \E q \in 1..Len(BlockTree(model, b)) :
        /\ IsTarget(BlockTree(model, b)[q].kind)
        /\ CallStyle(BlockShape(model, b), BlockTree(model, b)[q].obj)
              \in {"other", "never"}

(* C26: hook transparency.  A capture hook that is invoked with a first   *)
(* positional argument or with the keyword inputs never raises: it hands  *)
(* the call on to the original.  While the hooks of a block are installed *)
(* and no pass has raised, each hooked invocation has added exactly one   *)
(* entry to exactly one list, so after j passes the lists of the block    *)
(* hold j entries per hooked invocation of a pass; and entry k of every   *)
(* list is the input of pass k.                                           *)
HookTransparency ==
    /\ err # "NameError"
    /\ (pc = "capture" /\ bound = Block)
          => /\ Entries(buffers[Block], DOMAIN buffers[Block]) = j * Len(Hooked(Block))
             /\ \A h \in DOMAIN buffers[Block] :
                   \A k \in 1..Len(buffers[Block][h]) :
                      \E p \in 1..j :
                         buffers[Block][h][k].inp = CurrentInput(inputs[p])

(* C27: a block with a registered layer that is never invoked, or that is *)
(* invoked with neither a positional argument nor the keyword inputs,     *)
(* ends the run in an error at that block: the run never gets past the    *)
(* block and never returns, fasterquant is never applied to a layer of    *)
(* the block, its weights stay as they were, and when the error is raised *)
(* every layer of the block has its original call again.                  *)
UninvokedAborts ==
    \A k \in 1..Len(transformer_blocks) :
        Unsupported(transformer_blocks[k]) =>
            /\ i <= k
            /\ pc # "done"
            /\ i = k => pc \notin {"fasterquant", "free", "del", "propagate", "clear"}
            /\ \A q \in 1..Len(log) :
                  ~(log[q].op = "fasterquant" /\ log[q].blk = transformer_blocks[k])
            /\ \A o \in LayerObjs(model, transformer_blocks[k]) : weights[o] = <<>>
            /\ (pc = "error" /\ i = k) =>
                  \A o \in LayerObjs(model, transformer_blocks[k]) : call[o] = <<>>

(* a capture pass of such a block has raised, or its Hessian could not be *)
(* built, and the run has ended with the block untouched                  *)
UninvokedAbortsWitness ==
    /\ pc = "error"
    /\ i = 2
    /\ Len(transformer_blocks) = 2
    /\ Unsupported(Block)
    /\ err \in {"KeyError", "ValueError"}
    /\ \E q \in 1..Len(log) : log[q].op = "install" /\ log[q].blk = Block
    /\ \E o \in LayerObjs(model, transformer_blocks[1]) : weights[o] # <<>>


-----------------------------------------------------------------------------
(* Blocks without Dense or EinsumDense layers (lines 266-268, 335-344) *)

Skipped(b) == FindLayersInBlock(BlockTree(model, b), b) = <<>>

(* the events of block b in the log *)
EventsOf(b) == SelectSeq(log, LAMBDA e : e.blk = b)

(* the input block b was run on in pass k of its propagation *)
PropagatedInput(b, k) ==
    log[CHOOSE q \in 1..Len(log) :
            log[q].op = "propagate" /\ log[q].blk = b /\ log[q].j = k].x

(* C28: a block in which no Dense or EinsumDense layer is found gets no *)
(* accumulator, no buffer and no hook, is never captured, and none of   *)
(* its weights changes; if it is not the last block it is run on each   *)
(* of the nsamples current inputs, in order, once the loop has passed   *)
(* it, and every input the next block sees is the output of the skipped *)
(* block for the sample of the same index: inputs holds these outputs   *)
(* until the next block's own propagation replaces them.                *)
SkippedBlockPropagates ==
    \A k \in 1..Len(transformer_blocks) :
        LET b == transformer_blocks[k]
        IN Skipped(b) =>
           /\ \A q \in 1..Len(log) : log[q].blk = b => log[q].op = "propagate"
           /\ b \notin DOMAIN buffers
           /\ \A key \in DOMAIN gptq_objects : key[1] # b
           /\ \A o \in LayerObjs(model, b) : call[o] = <<>> /\ weights[o] = <<>>
           /\ (k = Len(transformer_blocks)) => EventsOf(b) = <<>>
           /\ (k < Len(transformer_blocks) /\ i > k) =>
                 /\ Len(EventsOf(b)) = nsamples
                 /\ \A p \in 1..nsamples : EventsOf(b)[p].j = p - 1
                 /\ \A q \in 1..Len(log) :
                       (log[q].blk = transformer_blocks[k + 1]
                          /\ log[q].op \in {"capture", "propagate"})
                       => log[q].x = CurrentInput(
                             PropagateOutput(model, weights, b,
                                             PropagatedInput(b, log[q].j)))
                 /\ (i = k + 1 /\ pc # "clear") =>
                       inputs = [p \in 1..nsamples |->
                                    PropagateOutput(model, weights, b,
                                                    PropagatedInput(b, p - 1))]

(* a run has finished in which a skipped block fed a quantized one *)
SkippedBlockPropagatesWitness ==
    /\ pc = "done"
    /\ nsamples = MaxSamples
    /\ Len(transformer_blocks) = 2
    /\ Skipped(transformer_blocks[1])
    /\ ~Skipped(transformer_blocks[2])
    /\ \E o \in LayerObjs(model, transformer_blocks[2]) : weights[o] # <<>>
    /\ \E q \in 1..Len(log) :
          log[q].op = "capture" /\ log[q].blk = transformer_blocks[2]


-----------------------------------------------------------------------------
(* The "c4" branch of get_dataloader, lines 95-122 *)

(* sample s is the window of seqlen tokens at offset off of document r *)
WindowOf(f, s, r, off) ==
    /\ f.recs[r] >= f.seqlen
    /\ off + f.seqlen <= f.recs[r]
    /\ s = <<SubSeq(Tokens(r, f.recs[r]), off + 1, off + f.seqlen)>>

(* C29: in the "c4" path every sample is a window of exactly seqlen      *)
(* consecutive tokens of one document that holds at least seqlen tokens; *)
(* for every document accepted at line 109, one of exactly seqlen tokens *)
(* included, the draw of line 118 has an offset j with 0 <= j and        *)
(* j + seqlen <= len to return, and the call fails only when no          *)
(* document is left to sample from.                                      *)
C4Windows ==
    loader.kind = "c4" =>
        /\ \A k \in 1..Len(loader.samples) :
              \E r \in 1..Len(loader.recs) :
                 \E off \in 0..loader.recs[r] :
                    WindowOf(loader, loader.samples[k], r, off)
        /\ loader.pc = "c4_slice" =>
              \E off \in Offsets(loader.recs[loader.doc], loader.seqlen) :
                 off >= 0 /\ off + loader.seqlen <= loader.recs[loader.doc]
        /\ loader.pc = "error" => loader.docs_for_sampling = <<>>

(* C30: every call of the "c4" path ends: it returns or it raises *)
C4Terminates == (loader.kind = "c4") ~> Ended(loader)

====
